---- MODULE Spec2Model ----
(***************************************************************************)
(* The identity registry of cacophoney-lib (src/src/node/mod.rs): the      *)
(* per-endpoint identification protocol (PreIdentify / Identify), the      *)
(* lookup and subscription handler (KeysExists), the stream introduction   *)
(* (Communicate) and the detached notification fan-out, over the shared    *)
(* ServerHandle maps.  Every handler is cut at its await points: one       *)
(* action per stretch of code between two awaits that touch shared state.  *)
(***************************************************************************)
EXTENDS Integers, Sequences, FiniteSets, TLC

(***************************************************************************)
(* Bounds of the model.                                                    *)
(***************************************************************************)
NumEndpoints == 2      \* inbound endpoints of the one server
NumKeys == 2           \* secp256k1 key pairs in play
NumSalts == 2          \* distinct values the RNG can return for a salt
MaxTasks == 2          \* handler invocations in flight at once
MaxLate == 1           \* clock readings k, k+1, ... past a period start
MaxPeriods == 1        \* clock readings reach MaxPeriods * EXPIRE_MS + MaxLate
MaxKeysReq == 2        \* longest `keys` of a KeysExistsReq
MaxList == 3           \* largest `max` of a ListConnectedServersReq
NumPeers == 2          \* remote nodes that connect to this node
MaxVersion == 2        \* largest apiVersion a remote node advertises
NumBytes == 2          \* distinct byte values written to a mock stream
MaxChunk == 3          \* longest buffer handed to one poll_write
MaxWrites == 3         \* poll_write calls the channel accepts
MaxRead == 2           \* largest ReadBuf::remaining of a poll_read
Capacity == 2          \* `buffer` of stream_pair: chunks the channel holds

(***************************************************************************)
(* Program constants.                                                      *)
(***************************************************************************)
EXPIRE_MS == 5000
CURRENT_VERSION == 0

Endpoints == 1..NumEndpoints
PrivateKeys == 1..NumKeys
Salts == 1..NumSalts
Peers == 1..NumPeers
Versions == 0..MaxVersion
Times == {late + period * EXPIRE_MS : late \in 0..MaxLate, period \in 0..MaxPeriods}
Formats == {"Cbor", "Json"}

\* Option<T> as a set with at most one element.
None == {}
Some(x) == {x}
Unwrap(o) == CHOOSE x \in o : TRUE

\* std::cmp::min.
Min(a, b) == IF a <= b THEN a ELSE b

\* A map as a function whose domain is the set of its keys.
EmptyMap == [k \in {} |-> 0]
Has(m, k) == k \in DOMAIN m
Put(m, k, v) == [x \in DOMAIN m \cup {k} |-> IF x = k THEN v ELSE m[x]]
Del(m, k) == [x \in DOMAIN m \ {k} |-> m[x]]

(***************************************************************************)
(* crypto: keys, hashes, signatures.                                       *)
(***************************************************************************)
derive_public(sk) == <<"secp256k1", sk>>
PublicKeys == {derive_public(sk) : sk \in PrivateKeys}

\* BLAKE3 of a byte string: injective on the byte strings of the model.
hash(bytes) == <<"blake3", bytes>>

\* ToHashMsg for &SignedData: both variants hash their content bytes; the
\* variant tag is not part of what is hashed.
to_hash_msg(signed) == hash(signed.bytes)

\* PrivateKey::sign over the hash of the message bytes.
sign(sk, bytes) == [by |-> sk, digest |-> hash(bytes)]

\* A signature no key produced, such as [1u8; 64].
JunkSignature == [by |-> 0, digest |-> <<"junk">>]

\* parse_compressed succeeds on the points of the curve only.
parse_compressed(pk) == pk \in PublicKeys

\* PublicKey::valid(msg, signature)
valid(pk, signed, signature) ==
    /\ parse_compressed(pk)
    /\ pk = derive_public(signature.by)
    /\ signature.digest = to_hash_msg(signed)

(***************************************************************************)
(* obj: signable envelope.                                                 *)
(***************************************************************************)
\* The variants of SignMessageType, by their wire names.
SignMessageType == {"IDENTIFY"}

\* serde_cbor::to_vec / serde_json::to_string of a Signable: the bytes are
\* determined by the encoding and the value.
Serialize(format, msg_type, obj) == [enc |-> format, msgType |-> msg_type, obj |-> obj]

\* Bytes that are no serialization of anything.
JunkBytes == [enc |-> "Raw", msgType |-> "", obj |-> None]

SignedData(format, bytes) == [format |-> format, bytes |-> bytes]

\* to_signable: decode with the decoder the variant names; a decoder rejects
\* bytes of another encoding and a msgType that names no variant.
to_signable(signed) ==
    IF /\ signed.bytes.enc = signed.format
       /\ signed.bytes.msgType \in SignMessageType
       /\ signed.bytes.obj # None
    THEN Some([msg_type |-> signed.bytes.msgType, obj |-> Unwrap(signed.bytes.obj)])
    ELSE None

\* to_cached: the decoded view next to the bytes as received.
to_cached(signed) ==
    IF to_signable(signed) = None THEN None
    ELSE Some([signable |-> Unwrap(to_signable(signed)), value |-> signed])

\* KeyTriad
KeyTriad(pk, signature, signed) == [public_key |-> pk, signature |-> signature, signed |-> signed]

\* KeyTriad::gen_signed, for either encoding.
gen_signed(sk, format, identify, msg_type) ==
    KeyTriad(derive_public(sk),
             sign(sk, Serialize(format, msg_type, Some(identify))),
             SignedData(format, Serialize(format, msg_type, Some(identify))))

IdentifyData(salt, start_time, expire_time) ==
    [salt |-> salt, start_time |-> start_time, expire_time |-> expire_time]


(***************************************************************************)
(* State.                                                                  *)
(***************************************************************************)
VARIABLES
    now,              \* what utils::now() returns
    node_holds,       \* the node still owns its Arc<ServerHandle>
    server_hdl,       \* InboundEndpoint.server_hdl of each endpoint: "None" or "Weak"
    server_info,      \* InboundEndpoint.info.server_info of each endpoint is Some
    handshake,        \* per peer, how far its version handshake with this node got
    connected_servers,\* ServerHandle.connected_servers: set of endpoints
    identify_data,    \* InboundEndpoint.identify_data: Option<IdentifyData>
    public_keys,      \* InboundEndpoint.public_keys: Vec<PublicKey>
    identities,       \* InboundEndpoint.identities: PublicKey -> KeyTriad<CachedSigned>
    key_to_endpoint,  \* ServerHandle.key_to_endpoint: PublicKey -> endpoint
    notifications,    \* ServerHandle.notifications: PublicKey -> set of endpoints
    tasks,            \* the handler futures in flight, each at an await
    fanouts,          \* the detached tasks tokio::spawn started in Identify
    notify_calls,     \* per connection and key, how often notify_connected was called
    ret,              \* what this step handed out: a handler's response, or a
                      \* notify_connected call of a fan-out
    prev_data,        \* history: the challenge the endpoint's latest PreIdentify replaced
    submitted,        \* history: per endpoint and key, the triad whose Identify succeeded
    closed,           \* the endpoints whose connection closed: its owner dropped its InboundHdl
    stream            \* a mock stream_pair: the channel, MockWrite, MockRead and what
                      \* went through them

vars == <<now, node_holds, server_hdl, server_info, handshake, connected_servers,
          identify_data, public_keys, identities, key_to_endpoint, notifications, tasks,
          fanouts, notify_calls, ret, prev_data, submitted, closed, stream>>

\* The previous step's response has been taken.
Ready == ret = [kind |-> "none"]

Slots == 1..MaxTasks
Idle == [kind |-> "idle", arc |-> FALSE]
NoHandshake == [pc |-> "idle"]
NoRet == [kind |-> "none"]

\* Weak::upgrade succeeds while some Arc<ServerHandle> is alive: the node's,
\* one a running handler upgraded, or one moved into a spawned fan-out.
ServerAlive ==
    \/ node_holds
    \/ \E t \in Slots : tasks[t].arc
    \/ fanouts # {}

\* identify_data is a tokio RwLock: Identify holds the read guard from its
\* first await to its return; a queued writer keeps later readers out.
ReadersOf(e) == {t \in Slots : tasks[t].kind = "Identify" /\ tasks[t].ep = e}
WritersWaiting(e) == {t \in Slots : tasks[t].kind = "PreIdentify" /\ tasks[t].ep = e}

\* Communicate keeps the OccupiedEntry of `to` (and with it the entry's lock)
\* while it awaits open_stream.
EntryLocked(k) ==
    \E t \in Slots : tasks[t].kind = "Communicate" /\ tasks[t].pc = "open_stream" /\ tasks[t].to = k

\* The slot a new handler invocation takes, with at most `limit` in flight.
FreeSlot(limit) ==
    {t \in Slots : /\ t <= limit
                   /\ tasks[t] = Idle
                   /\ \A u \in 1..(t - 1) : tasks[u] # Idle}

\* stream_pair(buffer): an empty channel of `buffer` slots, a MockWrite::Normal
\* and a MockRead with an empty buf at pos 0.  `written`, `got`, `reads` and
\* `result` are history: the chunks the channel accepted, the bytes poll_read
\* delivered, the number of poll_reads that returned Ok, and what a
\* read_to_end started on the fresh stream returned.
stream_pair(buffer) ==
    [cap |-> buffer, send |-> "Normal", recv |-> <<>>, buf |-> <<>>, pos |-> 0,
     written |-> <<>>, got |-> <<>>, reads |-> 0, result |-> None]

InitWith(kinds, infos) ==
    /\ now = 0
    /\ node_holds = TRUE
    /\ server_hdl = kinds
    /\ server_info = infos
    /\ handshake = [p \in Peers |-> NoHandshake]
    /\ connected_servers = {}
    /\ identify_data = [e \in Endpoints |-> None]
    /\ public_keys = [e \in Endpoints |-> <<>>]
    /\ identities = [e \in Endpoints |-> EmptyMap]
    /\ key_to_endpoint = EmptyMap
    /\ notifications = EmptyMap
    /\ tasks = [t \in Slots |-> Idle]
    /\ fanouts = {}
    /\ notify_calls = [e \in Endpoints |-> [k \in PublicKeys |-> 0]]
    /\ ret = NoRet
    /\ prev_data = [e \in Endpoints |-> None]
    /\ submitted = [e \in Endpoints |-> EmptyMap]
    /\ closed = {}
    /\ stream = stream_pair(Capacity)

\* InboundEndpoint::server_hdl for every endpoint of a fresh ServerHandle, the
\* remote ends being no servers (EndpointInfo::non_server).
Init == InitWith([e \in Endpoints |-> "Weak"], [e \in Endpoints |-> FALSE])

(***************************************************************************)
(* PreIdentify.                                                            *)
(***************************************************************************)
\* Lines 346-361: draw the salt, read the clock, build the challenge, then
\* queue for the write lock.
PreIdentifyCall(t, e, salt) ==
    /\ Ready
    /\ tasks' = [tasks EXCEPT ![t] =
            [kind |-> "PreIdentify", arc |-> FALSE, ep |-> e, pc |-> "write",
             identify_data |-> IdentifyData(salt, now, now + EXPIRE_MS)]]
    /\ ret' = NoRet
    /\ UNCHANGED <<now, node_holds, server_hdl, server_info, handshake, connected_servers,
                   identify_data, public_keys, identities, key_to_endpoint, notifications,
                   fanouts, notify_calls, prev_data, submitted, closed, stream>>

\* Variant: a challenge still outstanding is kept.
StoreChallenge_KeepFirst(old, new) == IF old = None THEN Some(new) ELSE old

\* The slot PreIdentify leaves in identify_data.
StoreChallenge(old, new) == Some(new)

\* Variant: the write lock is granted only while no other writer is queued.
PreIdentifyStore_Alone(t) ==
    LET tk == tasks[t] IN
    /\ Ready
    /\ tk.kind = "PreIdentify"
    /\ ReadersOf(tk.ep) = {}
    /\ WritersWaiting(tk.ep) = {t}
    /\ identify_data' = [identify_data EXCEPT
                            ![tk.ep] = StoreChallenge(identify_data[tk.ep], tk.identify_data)]
    /\ prev_data' = [prev_data EXCEPT ![tk.ep] = identify_data[tk.ep]]
    /\ tasks' = [tasks EXCEPT ![t] = Idle]
    /\ ret' = [kind |-> "PreIdentify", ep |-> tk.ep, result |-> "Ok",
               identify_data |-> tk.identify_data]
    /\ UNCHANGED <<now, node_holds, server_hdl, server_info, handshake, connected_servers,
                   public_keys, identities, key_to_endpoint, notifications, fanouts,
                   notify_calls, submitted, closed, stream>>

\* Lines 361-364: with the write lock, overwrite the slot and return the challenge.
PreIdentifyStore(t) ==
    LET tk == tasks[t] IN
    /\ Ready
    /\ tk.kind = "PreIdentify"
    /\ ReadersOf(tk.ep) = {}
    /\ identify_data' = [identify_data EXCEPT
                            ![tk.ep] = StoreChallenge(identify_data[tk.ep], tk.identify_data)]
    /\ prev_data' = [prev_data EXCEPT ![tk.ep] = identify_data[tk.ep]]
    /\ tasks' = [tasks EXCEPT ![t] = Idle]
    /\ ret' = [kind |-> "PreIdentify", ep |-> tk.ep, result |-> "Ok",
               identify_data |-> tk.identify_data]
    /\ UNCHANGED <<now, node_holds, server_hdl, server_info, handshake, connected_servers,
                   public_keys, identities, key_to_endpoint, notifications, fanouts,
                   notify_calls, submitted, closed, stream>>

(***************************************************************************)
(* Identify.                                                               *)
(***************************************************************************)
\* Variant: the payload may be the challenge of any endpoint of the server.
IdentifyCheck_AnyChallenge(stored, triad, clock) ==
    IF stored = None THEN "IdentifyDataInvalid"
    ELSE IF to_cached(triad.signed) = None THEN "ConvertErr"
    ELSE LET cached == Unwrap(to_cached(triad.signed))
             value == cached.signable
         IN IF \/ value.msg_type # "IDENTIFY"
               \/ ~valid(triad.public_key, cached.value, triad.signature)
            THEN "SignatureInvalid"
            ELSE IF value.obj \notin UNION {identify_data[o] : o \in Endpoints}
            THEN "IdentifyDataInvalid"
            ELSE IF clock > value.obj.expire_time THEN "Expired"
            ELSE "Pass"

\* Variant: the signature is never verified.
IdentifyCheck_NoVerify(stored, triad, clock) ==
    IF stored = None THEN "IdentifyDataInvalid"
    ELSE IF to_cached(triad.signed) = None THEN "ConvertErr"
    ELSE LET value == Unwrap(to_cached(triad.signed)).signable
         IN IF value.obj # Unwrap(stored) THEN "IdentifyDataInvalid"
            ELSE IF clock > value.obj.expire_time THEN "Expired"
            ELSE "Pass"

\* Variant: the challenge has expired once the clock reaches expire_time.
IdentifyCheck_ExpiredAtBoundary(stored, triad, clock) ==
    IF stored = None THEN "IdentifyDataInvalid"
    ELSE IF to_cached(triad.signed) = None THEN "ConvertErr"
    ELSE LET cached == Unwrap(to_cached(triad.signed))
             value == cached.signable
         IN IF \/ value.msg_type # "IDENTIFY"
               \/ ~valid(triad.public_key, cached.value, triad.signature)
            THEN "SignatureInvalid"
            ELSE IF value.obj # Unwrap(stored) THEN "IdentifyDataInvalid"
            ELSE IF clock >= value.obj.expire_time THEN "Expired"
            ELSE "Pass"

\* Variant: the expiry of the payload is checked before its equality with the
\* stored challenge.
IdentifyCheck_ExpiryFirst(stored, triad, clock) ==
    IF stored = None THEN "IdentifyDataInvalid"
    ELSE IF to_cached(triad.signed) = None THEN "ConvertErr"
    ELSE LET cached == Unwrap(to_cached(triad.signed))
             value == cached.signable
         IN IF \/ value.msg_type # "IDENTIFY"
               \/ ~valid(triad.public_key, cached.value, triad.signature)
            THEN "SignatureInvalid"
            ELSE IF clock > value.obj.expire_time THEN "Expired"
            ELSE IF value.obj # Unwrap(stored) THEN "IdentifyDataInvalid"
            ELSE "Pass"

\* Lines 385-407: the checks made under the read guard, in the code's order.
IdentifyCheck(stored, triad, clock) ==
    IF stored = None THEN "IdentifyDataInvalid"
    ELSE IF to_cached(triad.signed) = None THEN "ConvertErr"
    ELSE LET cached == Unwrap(to_cached(triad.signed))
             value == cached.signable
         IN IF \/ value.msg_type # "IDENTIFY"
               \/ ~valid(triad.public_key, cached.value, triad.signature)
            THEN "SignatureInvalid"
            ELSE IF value.obj # Unwrap(stored) THEN "IdentifyDataInvalid"
            ELSE IF clock > value.obj.expire_time THEN "Expired"
            ELSE "Pass"

\* Variant: the cache keeps the payload serialized afresh, as CBOR.
CachedTriad_Reencoded(triad) ==
    LET cached == Unwrap(to_cached(triad.signed)) IN
    KeyTriad(triad.public_key, triad.signature,
             [signable |-> cached.signable,
              value |-> SignedData("Cbor", Serialize("Cbor", cached.signable.msg_type,
                                                     Some(cached.signable.obj)))])

\* Lines 409-414: the triad as kept in identities.
CachedTriad(triad) ==
    KeyTriad(triad.public_key, triad.signature, Unwrap(to_cached(triad.signed)))

IdentifyRet(e, triad, result, seen, clock, fresh, held) ==
    [kind |-> "Identify", ep |-> e, triad |-> triad, result |-> result,
     seen |-> seen, now_read |-> clock, fresh |-> fresh, held |-> held]

\* Lines 382-421: take the read guard, run the checks, upgrade the weak handle.
IdentifyCall(t, e, triad) ==
    LET check == IdentifyCheck(identify_data[e], triad, now) IN
    /\ Ready
    /\ WritersWaiting(e) = {}
    /\ IF check # "Pass"
       THEN /\ ret' = IdentifyRet(e, triad, check, identify_data[e], now, FALSE,
                                   Has(identities[e], triad.public_key))
            /\ UNCHANGED tasks
       ELSE IF server_hdl[e] = "Weak" /\ ~ServerAlive
       THEN /\ ret' = IdentifyRet(e, triad, "ServerHdlDropped", identify_data[e], now, FALSE,
                                   Has(identities[e], triad.public_key))
            /\ UNCHANGED tasks
       ELSE /\ ret' = NoRet
            /\ tasks' = [tasks EXCEPT ![t] =
                   [kind |-> "Identify", arc |-> (server_hdl[e] = "Weak"), ep |-> e,
                    pc |-> IF server_hdl[e] = "Weak" THEN "key_to_endpoint" ELSE "identities",
                    triad |-> triad, seen |-> identify_data[e], now_read |-> now,
                    fresh |-> FALSE, held |-> Has(identities[e], triad.public_key),
                    rank |-> 0]]
    /\ UNCHANGED <<now, node_holds, server_hdl, server_info, handshake, connected_servers,
                   identify_data, public_keys, identities, key_to_endpoint, notifications,
                   fanouts, notify_calls, prev_data, submitted, closed, stream>>

\* scc::HashMap::insert_async: inserts when the key is vacant; an occupied
\* key keeps its value and the call returns Err (lines 434-441 rely on it).
insert_async(map, k, v) == IF Has(map, k) THEN map ELSE Put(map, k, v)

\* Variant: an Identify that leaves the registry alone.
RegisterKey_Skip(map, k, e) == map

\* Lines 423-426: `let _ = key_to_endpoint.insert_async(public_key, self.clone())`.
RegisterKey(map, k, e) == insert_async(map, k, e)

IdentifyRegister(t) ==
    LET tk == tasks[t]
        pk == tk.triad.public_key
    IN
    /\ Ready
    /\ tk.kind = "Identify" /\ tk.pc = "key_to_endpoint"
    /\ ~EntryLocked(pk)
    /\ key_to_endpoint' = RegisterKey(key_to_endpoint, pk, tk.ep)
    /\ tasks' = [tasks EXCEPT ![t] = [tk EXCEPT !.pc = "identities",
                                                !.fresh = ~Has(key_to_endpoint, pk)]]
    /\ ret' = NoRet
    /\ UNCHANGED <<now, node_holds, server_hdl, server_info, handshake, connected_servers,
                   identify_data, public_keys, identities, notifications, fanouts,
                   notify_calls, prev_data, submitted, closed, stream>>

\* Variant: a duplicate replaces the stored triad and the call goes on, as with
\* std's HashMap::insert.
IdentifyInsert_Overwrite(t) ==
    LET tk == tasks[t]
        e == tk.ep
        pk == tk.triad.public_key
    IN
    /\ Ready
    /\ tk.kind = "Identify" /\ tk.pc = "identities"
    /\ identities' = [identities EXCEPT ![e] = Put(@, pk, CachedTriad(tk.triad))]
    /\ submitted' = IF Has(identities[e], pk) THEN submitted
                    ELSE [submitted EXCEPT ![e] = Put(@, pk, tk.triad)]
    /\ fanouts' = IF tk.arc
                  THEN fanouts \cup {[by |-> e, key |-> pk, triad |-> tk.triad,
                                      pc |-> "remove", endpoints |-> {}]}
                  ELSE fanouts
    /\ tasks' = [tasks EXCEPT ![t] = [tk EXCEPT !.pc = "public_keys", !.arc = FALSE]]
    /\ ret' = NoRet
    /\ UNCHANGED <<now, node_holds, server_hdl, server_info, handshake, connected_servers,
                   identify_data, public_keys, key_to_endpoint, notifications, notify_calls,
                   prev_data, closed, stream>>

\* Lines 433-461: insert into identities; a duplicate returns AlreadyIdentified,
\* otherwise the fan-out is spawned (it takes over the Arc<ServerHandle>).
IdentifyInsert(t) ==
    LET tk == tasks[t]
        e == tk.ep
        pk == tk.triad.public_key
    IN
    /\ Ready
    /\ tk.kind = "Identify" /\ tk.pc = "identities"
    /\ IF Has(identities[e], pk)
       THEN /\ ret' = IdentifyRet(e, tk.triad, "AlreadyIdentified", tk.seen, tk.now_read,
                                   tk.fresh, tk.held)
            /\ tasks' = [tasks EXCEPT ![t] = Idle]
            /\ UNCHANGED <<identities, fanouts, submitted, closed, stream>>
       ELSE /\ identities' = [identities EXCEPT ![e] = Put(@, pk, CachedTriad(tk.triad))]
            /\ submitted' = [submitted EXCEPT ![e] = Put(@, pk, tk.triad)]
            /\ fanouts' = IF tk.arc
                          THEN fanouts \cup {[by |-> e, key |-> pk, triad |-> tk.triad,
                                              pc |-> "remove", endpoints |-> {}]}
                          ELSE fanouts
            /\ tasks' = [tasks EXCEPT ![t] =
                   [tk EXCEPT !.pc = "public_keys", !.arc = FALSE,
                              !.rank = Cardinality(DOMAIN identities'[e])]]
            /\ ret' = NoRet
    /\ UNCHANGED <<now, node_holds, server_hdl, server_info, handshake, connected_servers,
                   identify_data, public_keys, key_to_endpoint, notifications, notify_calls,
                   prev_data, closed, stream>>

\* Variant: a successful Identify uses its challenge up.
IdentifyPush_Consume(t) ==
    LET tk == tasks[t] IN
    /\ Ready
    /\ tk.kind = "Identify" /\ tk.pc = "public_keys"
    /\ public_keys' = [public_keys EXCEPT ![tk.ep] = Append(@, tk.triad.public_key)]
    /\ identify_data' = [identify_data EXCEPT ![tk.ep] = None]
    /\ tasks' = [tasks EXCEPT ![t] = Idle]
    /\ ret' = IdentifyRet(tk.ep, tk.triad, "Ok", tk.seen, tk.now_read, tk.fresh, tk.held)
    /\ UNCHANGED <<now, node_holds, server_hdl, server_info, handshake, connected_servers,
                   identities, key_to_endpoint, notifications, fanouts, notify_calls,
                   prev_data, submitted, closed, stream>>

\* Lines 463-467: push the key and return.
IdentifyPush(t) ==
    LET tk == tasks[t] IN
    /\ Ready
    /\ tk.kind = "Identify" /\ tk.pc = "public_keys"
    /\ public_keys' = [public_keys EXCEPT ![tk.ep] = Append(@, tk.triad.public_key)]
    /\ tasks' = [tasks EXCEPT ![t] = Idle]
    /\ ret' = IdentifyRet(tk.ep, tk.triad, "Ok", tk.seen, tk.now_read, tk.fresh, tk.held)
    /\ UNCHANGED <<now, node_holds, server_hdl, server_info, handshake, connected_servers,
                   identify_data, identities, key_to_endpoint, notifications, fanouts,
                   notify_calls, prev_data, submitted, closed, stream>>

(***************************************************************************)
(* The spawned fan-out (lines 446-458).                                    *)
(***************************************************************************)
\* Variant: the subscription set is read and left in place.
FanoutRemove_KeepEntry(f) ==
    /\ Ready
    /\ f \in fanouts /\ f.pc = "remove"
    /\ fanouts' = IF Has(notifications, f.key)
                  THEN (fanouts \ {f}) \cup
                           {[f EXCEPT !.pc = "notify", !.endpoints = notifications[f.key]]}
                  ELSE fanouts \ {f}
    /\ ret' = NoRet
    /\ UNCHANGED <<now, node_holds, server_hdl, server_info, handshake, connected_servers,
                   identify_data, public_keys, identities, key_to_endpoint, notifications,
                   tasks, notify_calls, prev_data, submitted, closed, stream>>

\* notifications.remove_async: take the subscription set of the key, if any.
FanoutRemove(f) ==
    /\ Ready
    /\ f \in fanouts /\ f.pc = "remove"
    /\ IF Has(notifications, f.key)
       THEN /\ notifications' = Del(notifications, f.key)
            /\ fanouts' = (fanouts \ {f}) \cup
                   {[f EXCEPT !.pc = "notify", !.endpoints = notifications[f.key]]}
       ELSE /\ fanouts' = fanouts \ {f}
            /\ UNCHANGED notifications
    /\ ret' = NoRet
    /\ UNCHANGED <<now, node_holds, server_hdl, server_info, handshake, connected_servers,
                   identify_data, public_keys, identities, key_to_endpoint, tasks,
                   notify_calls, prev_data, submitted, closed, stream>>

\* Variant: the first notify_connected that fails ends the fan-out.
FanoutNotify_StopOnErr(f, s, ok) ==
    /\ Ready
    /\ f \in fanouts /\ f.pc = "notify"
    /\ s \in f.endpoints
    /\ notify_calls' = [notify_calls EXCEPT ![s][f.key] = @ + 1]
    /\ fanouts' = IF f.endpoints = {s} \/ ~ok
                  THEN fanouts \ {f}
                  ELSE (fanouts \ {f}) \cup {[f EXCEPT !.endpoints = @ \ {s}]}
    /\ ret' = [kind |-> "notify_connected", conn |-> s, triad |-> f.triad, by |-> f.by,
               ok |-> ok]
    /\ UNCHANGED <<now, node_holds, server_hdl, server_info, handshake, connected_servers,
                   identify_data, public_keys, identities, key_to_endpoint, notifications,
                   tasks, prev_data, submitted, closed, stream>>

\* One turn of the loop: notify_connected on the next subscriber's connection,
\* in the set's iteration order, the result dropped.
FanoutNotify(f, s, ok) ==
    /\ Ready
    /\ f \in fanouts /\ f.pc = "notify"
    /\ s \in f.endpoints
    /\ notify_calls' = [notify_calls EXCEPT ![s][f.key] = @ + 1]
    /\ fanouts' = IF f.endpoints = {s}
                  THEN fanouts \ {f}
                  ELSE (fanouts \ {f}) \cup {[f EXCEPT !.endpoints = @ \ {s}]}
    /\ ret' = [kind |-> "notify_connected", conn |-> s, triad |-> f.triad, by |-> f.by,
               ok |-> ok]
    /\ UNCHANGED <<now, node_holds, server_hdl, server_info, handshake, connected_servers,
                   identify_data, public_keys, identities, key_to_endpoint, notifications,
                   tasks, prev_data, submitted, closed, stream>>


(***************************************************************************)
(* KeysExists (lines 297-340).                                             *)
(***************************************************************************)
\* Variant: the payload serialized afresh from the decoded view, as CBOR.
ToSignedData_Reencoded(cached_triad) ==
    KeyTriad(cached_triad.public_key, cached_triad.signature,
             SignedData("Cbor", Serialize("Cbor", cached_triad.signed.signable.msg_type,
                                          Some(cached_triad.signed.signable.obj))))

\* Line 334: the stored triad with its payload mapped back to the bytes received.
ToSignedData(cached_triad) ==
    KeyTriad(cached_triad.public_key, cached_triad.signature, cached_triad.signed.value)

\* History: the keys for which a fan-out's notifications.remove_async has
\* returned a subscription set (lines 445-451), which it is delivering or has
\* begun to deliver.  A KeysExists records the set its call found.
Extracted ==
    {k \in PublicKeys :
        \/ \E f \in fanouts : f.key = k /\ f.pc = "notify"
        \/ \E e \in Endpoints : notify_calls[e][k] > 0}

KeysExistsRet(e, keys, notify, result, triads) ==
    [kind |-> "KeysExists", ep |-> e, keys |-> keys, notify |-> notify,
     result |-> result, triads |-> triads]

\* Variant: a KeysExists that takes the node's server handle whatever the
\* endpoint's scope.
KeysExistsCall_AnyScope(t, e, keys, notify) ==
    /\ Ready
    /\ IF ~ServerAlive
       THEN ret' = KeysExistsRet(e, keys, notify, "ServerHdlDropped", <<>>) /\ UNCHANGED tasks
       ELSE IF keys = <<>>
       THEN ret' = KeysExistsRet(e, keys, notify, "Ok", <<>>) /\ UNCHANGED tasks
       ELSE /\ ret' = NoRet
            /\ tasks' = [tasks EXCEPT ![t] =
                   [kind |-> "KeysExists", arc |-> TRUE, ep |-> e, pc |-> "key_to_endpoint",
                    keys |-> keys, notify |-> notify, idx |-> 1, triads |-> <<>>, hdl |-> 0,
                    extracted |-> Extracted]]
    /\ UNCHANGED <<now, node_holds, server_hdl, server_info, handshake, connected_servers,
                   identify_data, public_keys, identities, key_to_endpoint, notifications,
                   fanouts, notify_calls, prev_data, submitted, closed, stream>>

\* Lines 297-304: upgrade the handle; an empty request returns at once.
KeysExistsCall(t, e, keys, notify) ==
    /\ Ready
    /\ IF server_hdl[e] = "None"
       THEN ret' = KeysExistsRet(e, keys, notify, "NotServer", <<>>) /\ UNCHANGED tasks
       ELSE IF ~ServerAlive
       THEN ret' = KeysExistsRet(e, keys, notify, "ServerHdlDropped", <<>>) /\ UNCHANGED tasks
       ELSE IF keys = <<>>
       THEN ret' = KeysExistsRet(e, keys, notify, "Ok", <<>>) /\ UNCHANGED tasks
       ELSE /\ ret' = NoRet
            /\ tasks' = [tasks EXCEPT ![t] =
                   [kind |-> "KeysExists", arc |-> TRUE, ep |-> e, pc |-> "key_to_endpoint",
                    keys |-> keys, notify |-> notify, idx |-> 1, triads |-> <<>>, hdl |-> 0,
                    extracted |-> Extracted]]
    /\ UNCHANGED <<now, node_holds, server_hdl, server_info, handshake, connected_servers,
                   identify_data, public_keys, identities, key_to_endpoint, notifications,
                   fanouts, notify_calls, prev_data, submitted, closed, stream>>

\* The end of one turn of the loop over req.keys: the next key, or the response.
KeysExistsAdvance(t, triads) ==
    LET tk == tasks[t] IN
    IF tk.idx = Len(tk.keys)
    THEN /\ tasks' = [tasks EXCEPT ![t] = Idle]
         /\ ret' = KeysExistsRet(tk.ep, tk.keys, tk.notify, "Ok", triads)
    ELSE /\ tasks' = [tasks EXCEPT ![t] =
                [tk EXCEPT !.idx = @ + 1, !.pc = "key_to_endpoint", !.triads = triads]]
         /\ ret' = NoRet

\* Variant: notify_when_left subscribes whatever req.notify says.
KeysExistsMiss_Always(t) ==
    /\ tasks' = [tasks EXCEPT ![t].pc = "notifications"]
    /\ ret' = NoRet

\* A key found absent: notify_when_left awaits the notifications entry when
\* req.notify is set and returns at once when it is not.
KeysExistsMiss(t) ==
    IF tasks[t].notify
    THEN /\ tasks' = [tasks EXCEPT ![t].pc = "notifications"]
         /\ ret' = NoRet
    ELSE KeysExistsAdvance(t, tasks[t].triads)

\* Lines 317-323: key_to_endpoint.get_async(&key).
KeysExistsGet(t) ==
    LET tk == tasks[t]
        key == tk.keys[tk.idx]
    IN
    /\ Ready
    /\ tk.kind = "KeysExists" /\ tk.pc = "key_to_endpoint"
    /\ ~EntryLocked(key)
    /\ IF Has(key_to_endpoint, key)
       THEN /\ tasks' = [tasks EXCEPT ![t] =
                   [tk EXCEPT !.pc = "identities", !.hdl = key_to_endpoint[key]]]
            /\ ret' = NoRet
       ELSE KeysExistsMiss(t)
    /\ UNCHANGED <<now, node_holds, server_hdl, server_info, handshake, connected_servers,
                   identify_data, public_keys, identities, key_to_endpoint, notifications,
                   fanouts, notify_calls, prev_data, submitted, closed, stream>>

\* Variant: the triad found is put in front of those found before.
KeysExistsIdentities_Prepend(t) ==
    LET tk == tasks[t]
        key == tk.keys[tk.idx]
    IN
    /\ Ready
    /\ tk.kind = "KeysExists" /\ tk.pc = "identities"
    /\ IF Has(identities[tk.hdl], key)
       THEN KeysExistsAdvance(t, <<ToSignedData(identities[tk.hdl][key])>> \o tk.triads)
       ELSE KeysExistsMiss(t)
    /\ UNCHANGED <<now, node_holds, server_hdl, server_info, handshake, connected_servers,
                   identify_data, public_keys, identities, key_to_endpoint, notifications,
                   fanouts, notify_calls, prev_data, submitted, closed, stream>>

\* Lines 325-336: hdl.identities.get_async(&key).
KeysExistsIdentities(t) ==
    LET tk == tasks[t]
        key == tk.keys[tk.idx]
    IN
    /\ Ready
    /\ tk.kind = "KeysExists" /\ tk.pc = "identities"
    /\ IF Has(identities[tk.hdl], key)
       THEN KeysExistsAdvance(t, Append(tk.triads, ToSignedData(identities[tk.hdl][key])))
       ELSE KeysExistsMiss(t)
    /\ UNCHANGED <<now, node_holds, server_hdl, server_info, handshake, connected_servers,
                   identify_data, public_keys, identities, key_to_endpoint, notifications,
                   fanouts, notify_calls, prev_data, submitted, closed, stream>>

\* Lines 311-313: entry_async(key).or_default().insert(self.clone()).
Subscribe(map, key, e) ==
    Put(map, key, (IF Has(map, key) THEN map[key] ELSE {}) \cup {e})

KeysExistsNotify(t) ==
    LET tk == tasks[t]
        key == tk.keys[tk.idx]
    IN
    /\ Ready
    /\ tk.kind = "KeysExists" /\ tk.pc = "notifications"
    /\ notifications' = Subscribe(notifications, key, tk.ep)
    /\ KeysExistsAdvance(t, tk.triads)
    /\ UNCHANGED <<now, node_holds, server_hdl, server_info, handshake, connected_servers,
                   identify_data, public_keys, identities, key_to_endpoint, fanouts,
                   notify_calls, prev_data, submitted, closed, stream>>

(***************************************************************************)
(* Communicate (lines 259-280).                                            *)
(***************************************************************************)
\* `opened`: the open_stream call this invocation made, if any: the connection
\* it was made on, the key passed, and whether it gave a stream.
CommunicateRet(e, from, to, result, opened) ==
    [kind |-> "Communicate", ep |-> e, from |-> from, to |-> to,
     result |-> result, opened |-> opened]

\* Lines 260-265.
CommunicateCall(t, e, from, to) ==
    /\ Ready
    /\ IF server_hdl[e] = "None"
       THEN ret' = CommunicateRet(e, from, to, "NotServer", None) /\ UNCHANGED tasks
       ELSE IF ~ServerAlive
       THEN ret' = CommunicateRet(e, from, to, "ServerHdlDropped", None) /\ UNCHANGED tasks
       ELSE /\ ret' = NoRet
            /\ tasks' = [tasks EXCEPT ![t] =
                   [kind |-> "Communicate", arc |-> TRUE, ep |-> e, pc |-> "identities",
                    from |-> from, to |-> to, to_hdl |-> 0]]
    /\ UNCHANGED <<now, node_holds, server_hdl, server_info, handshake, connected_servers,
                   identify_data, public_keys, identities, key_to_endpoint, notifications,
                   fanouts, notify_calls, prev_data, submitted, closed, stream>>

\* Variant: any endpoint of the server identified as `from`.
IdentifiedAs_Anywhere(e, from) == Has(key_to_endpoint, from)

\* Line 268: whether this endpoint identified as `from`.
IdentifiedAs(e, from) == Has(identities[e], from)

\* Lines 267-270.
CommunicateContains(t) ==
    LET tk == tasks[t] IN
    /\ Ready
    /\ tk.kind = "Communicate" /\ tk.pc = "identities"
    /\ IF ~IdentifiedAs(tk.ep, tk.from)
       THEN /\ ret' = CommunicateRet(tk.ep, tk.from, tk.to, "InvalidPublicKey", None)
            /\ tasks' = [tasks EXCEPT ![t] = Idle]
       ELSE /\ ret' = NoRet
            /\ tasks' = [tasks EXCEPT ![t].pc = "key_to_endpoint"]
    /\ UNCHANGED <<now, node_holds, server_hdl, server_info, handshake, connected_servers,
                   identify_data, public_keys, identities, key_to_endpoint, notifications,
                   fanouts, notify_calls, prev_data, submitted, closed, stream>>

\* Variant: the stream is opened on the initiator's own connection.
StreamTarget_Self(e, to) == e

\* Line 279: the connection open_stream is called on.
StreamTarget(e, to) == key_to_endpoint[to]

\* Lines 272-279: resolve `to`; the entry stays held and open_stream(from) is
\* called on the owner's connection.
CommunicateGet(t) ==
    LET tk == tasks[t] IN
    /\ Ready
    /\ tk.kind = "Communicate" /\ tk.pc = "key_to_endpoint"
    /\ ~EntryLocked(tk.to)
    /\ IF ~Has(key_to_endpoint, tk.to)
       THEN /\ ret' = CommunicateRet(tk.ep, tk.from, tk.to, "CannotFindKey", None)
            /\ tasks' = [tasks EXCEPT ![t] = Idle]
       ELSE /\ ret' = NoRet
            /\ tasks' = [tasks EXCEPT ![t] =
                   [tk EXCEPT !.pc = "open_stream", !.to_hdl = StreamTarget(tk.ep, tk.to)]]
    /\ UNCHANGED <<now, node_holds, server_hdl, server_info, handshake, connected_servers,
                   identify_data, public_keys, identities, key_to_endpoint, notifications,
                   fanouts, notify_calls, prev_data, submitted, closed, stream>>

\* Line 279: open_stream returns a stream or its error, handed to the initiator.
CommunicateOpened(t, ok) ==
    LET tk == tasks[t] IN
    /\ Ready
    /\ tk.kind = "Communicate" /\ tk.pc = "open_stream"
    /\ ret' = CommunicateRet(tk.ep, tk.from, tk.to,
                             IF ok THEN "Stream" ELSE "StreamOpenErr",
                             Some([conn |-> tk.to_hdl, key |-> tk.from, ok |-> ok]))
    /\ tasks' = [tasks EXCEPT ![t] = Idle]
    /\ UNCHANGED <<now, node_holds, server_hdl, server_info, handshake, connected_servers,
                   identify_data, public_keys, identities, key_to_endpoint, notifications,
                   fanouts, notify_calls, prev_data, submitted, closed, stream>>

(***************************************************************************)
(* ServerHandle::connect_server (lines 88-102).                            *)
(***************************************************************************)
\* `returned`: the handle an Err hands back.
ConnectServerRet(h, result, returned) ==
    [kind |-> "connect_server", hdl |-> h, result |-> result, returned |-> returned]

\* Variant: a connect_server that accepts a handle without server_info.
ConnectServerCall_AnyHandle(t, h) ==
    /\ Ready
    /\ node_holds
    /\ ret' = NoRet
    /\ tasks' = [tasks EXCEPT ![t] =
           [kind |-> "connect_server", arc |-> TRUE, hdl |-> h, pc |-> "write"]]
    /\ UNCHANGED <<now, node_holds, server_hdl, server_info, handshake, connected_servers,
                   identify_data, public_keys, identities, key_to_endpoint, notifications,
                   fanouts, notify_calls, prev_data, submitted, closed, stream>>

\* Lines 89-94: a handle without server_info is handed back at once; the
\* caller's Arc<ServerHandle> stays borrowed while the call is in flight.
ConnectServerCall(t, h) ==
    /\ Ready
    /\ node_holds
    /\ IF ~server_info[h]
       THEN ret' = ConnectServerRet(h, "Err", Some(h)) /\ UNCHANGED tasks
       ELSE /\ ret' = NoRet
            /\ tasks' = [tasks EXCEPT ![t] =
                   [kind |-> "connect_server", arc |-> TRUE, hdl |-> h, pc |-> "write"]]
    /\ UNCHANGED <<now, node_holds, server_hdl, server_info, handshake, connected_servers,
                   identify_data, public_keys, identities, key_to_endpoint, notifications,
                   fanouts, notify_calls, prev_data, submitted, closed, stream>>

\* Variant: a connect_server that inserts without looking.
ConnectServerWrite_NoContains(t) ==
    LET tk == tasks[t] IN
    /\ Ready
    /\ tk.kind = "connect_server"
    /\ connected_servers' = connected_servers \cup {tk.hdl}
    /\ ret' = ConnectServerRet(tk.hdl, "Ok", None)
    /\ tasks' = [tasks EXCEPT ![t] = Idle]
    /\ UNCHANGED <<now, node_holds, server_hdl, server_info, handshake, identify_data,
                   public_keys, identities, key_to_endpoint, notifications, fanouts,
                   notify_calls, prev_data, submitted, closed, stream>>

\* Lines 96-101, under the write lock: HashSet::contains is by id.
ConnectServerWrite(t) ==
    LET tk == tasks[t] IN
    /\ Ready
    /\ tk.kind = "connect_server"
    /\ IF tk.hdl \in connected_servers
       THEN /\ ret' = ConnectServerRet(tk.hdl, "Err", Some(tk.hdl))
            /\ UNCHANGED connected_servers
       ELSE /\ connected_servers' = connected_servers \cup {tk.hdl}
            /\ ret' = ConnectServerRet(tk.hdl, "Ok", None)
    /\ tasks' = [tasks EXCEPT ![t] = Idle]
    /\ UNCHANGED <<now, node_holds, server_hdl, server_info, handshake, identify_data,
                   public_keys, identities, key_to_endpoint, notifications, fanouts,
                   notify_calls, prev_data, submitted, closed, stream>>

(***************************************************************************)
(* ListConnectedServers (lines 218-242).                                   *)
(***************************************************************************)
\* The orders in which HashSet::iter may yield the elements of a set.
Orders(set) ==
    {order \in [1..Cardinality(set) -> set] :
        \A i, j \in 1..Cardinality(set) : i # j => order[i] # order[j]}

\* Lines 229-240: the loop over connected_servers.iter().enumerate(), `index`
\* counting from 0: the test against req.max comes before the push.
RECURSIVE ListLoop(_, _, _, _)
ListLoop(order, index, max, servers) ==
    IF index >= Len(order) THEN servers
    ELSE IF Some(index + 1) = max THEN servers
    ELSE ListLoop(order, index + 1, max, Append(servers, order[index + 1]))

\* Line 236: `info.server_info.as_ref().unwrap()` panics on an entry that has
\* no server_info.
Unwrapped(servers) ==
    IF \A i \in 1..Len(servers) : server_info[servers[i]] THEN "Ok" ELSE "Panic"

ListConnectedServersRet(e, max, result, order, servers) ==
    [kind |-> "ListConnectedServers", ep |-> e, max |-> max, result |-> result,
     order |-> order, servers |-> servers]

\* Lines 219-224.
ListConnectedServersCall(t, e, max) ==
    /\ Ready
    /\ IF server_hdl[e] = "None"
       THEN ret' = ListConnectedServersRet(e, max, "NotServer", <<>>, <<>>) /\ UNCHANGED tasks
       ELSE IF ~ServerAlive
       THEN ret' = ListConnectedServersRet(e, max, "ServerHdlDropped", <<>>, <<>>)
            /\ UNCHANGED tasks
       ELSE /\ ret' = NoRet
            /\ tasks' = [tasks EXCEPT ![t] =
                   [kind |-> "ListConnectedServers", arc |-> TRUE, ep |-> e,
                    pc |-> "connected_servers", max |-> max]]
    /\ UNCHANGED <<now, node_holds, server_hdl, server_info, handshake, connected_servers,
                   identify_data, public_keys, identities, key_to_endpoint, notifications,
                   fanouts, notify_calls, prev_data, submitted, closed, stream>>

\* Lines 226-241, under the read lock.
ListConnectedServersRead(t, order) ==
    LET tk == tasks[t] IN
    /\ Ready
    /\ tk.kind = "ListConnectedServers"
    /\ order \in Orders(connected_servers)
    /\ ret' = ListConnectedServersRet(tk.ep, tk.max, Unwrapped(ListLoop(order, 0, tk.max, <<>>)),
                                      order, ListLoop(order, 0, tk.max, <<>>))
    /\ tasks' = [tasks EXCEPT ![t] = Idle]
    /\ UNCHANGED <<now, node_holds, server_hdl, server_info, handshake, connected_servers,
                   identify_data, public_keys, identities, key_to_endpoint, notifications,
                   fanouts, notify_calls, prev_data, submitted, closed, stream>>

(***************************************************************************)
(* The version handshake of Node::connect and Node::accept.                *)
(***************************************************************************)
NodeInfo(api_version) == [api_version |-> api_version]
NodeInfoResp(compatible_, info) == [compatible |-> compatible_, info |-> info]

\* What either side of a handshake ends with.
NodeConnection == [kind |-> "NodeConnection"]
IncompatibleVersion(version) == [kind |-> "IncompatibleVersion", version |-> version]
RequestErr == [kind |-> "RequestErr"]
Pending == [kind |-> "pending"]

\* Variant: an acceptor that takes every version.
compatible_Any(api_version) == TRUE

\* The acceptor's versioning rule: strictly greater versions are rejected.
compatible(api_version) == ~(api_version > CURRENT_VERSION)

\* Node::connect: the connection is open and NodeInfo{api_version} is sent.
Connect(p, api_version) ==
    /\ handshake[p].pc = "idle"
    /\ handshake' = [handshake EXCEPT ![p] =
           [pc |-> "sent", info |-> NodeInfo(api_version), acceptor |-> Pending,
            resp |-> None, initiator |-> Pending]]
    /\ UNCHANGED <<now, node_holds, server_hdl, server_info, connected_servers, identify_data,
                   public_keys, identities, key_to_endpoint, notifications, tasks, fanouts,
                   notify_calls, ret, prev_data, submitted, closed, stream>>

\* Node::accept: the first request projected to NodeInfo.  An incompatible
\* version is surfaced to the caller with the Responder; a compatible one
\* is answered and yields the NodeConnection.
Accept(p) ==
    LET hs == handshake[p] IN
    /\ hs.pc = "sent"
    /\ IF ~compatible(hs.info.api_version)
       THEN handshake' = [handshake EXCEPT ![p] =
                [hs EXCEPT !.pc = "responder",
                           !.acceptor = IncompatibleVersion(hs.info.api_version)]]
       ELSE handshake' = [handshake EXCEPT ![p] =
                [hs EXCEPT !.pc = "responded",
                           !.acceptor = NodeConnection,
                           !.resp = Some(NodeInfoResp(TRUE, NodeInfo(CURRENT_VERSION)))]]
    /\ UNCHANGED <<now, node_holds, server_hdl, server_info, connected_servers, identify_data,
                   public_keys, identities, key_to_endpoint, notifications, tasks, fanouts,
                   notify_calls, ret, prev_data, submitted, closed, stream>>

\* The caller of accept uses the Responder to send the explicit rejection.
Reject(p) ==
    LET hs == handshake[p] IN
    /\ hs.pc = "responder"
    /\ handshake' = [handshake EXCEPT ![p] =
           [hs EXCEPT !.pc = "responded",
                      !.resp = Some(NodeInfoResp(FALSE, NodeInfo(CURRENT_VERSION)))]]
    /\ UNCHANGED <<now, node_holds, server_hdl, server_info, connected_servers, identify_data,
                   public_keys, identities, key_to_endpoint, notifications, tasks, fanouts,
                   notify_calls, ret, prev_data, submitted, closed, stream>>

\* The caller of accept drops the Responder: the initiator's request fails.
DropResponder(p) ==
    LET hs == handshake[p] IN
    /\ hs.pc = "responder"
    /\ handshake' = [handshake EXCEPT ![p] =
           [hs EXCEPT !.pc = "done", !.initiator = RequestErr]]
    /\ UNCHANGED <<now, node_holds, server_hdl, server_info, connected_servers, identify_data,
                   public_keys, identities, key_to_endpoint, notifications, tasks, fanouts,
                   notify_calls, ret, prev_data, submitted, closed, stream>>

\* Node::connect: NodeInfoResp{compatible, info} has arrived.
ConnectResp(p) ==
    LET hs == handshake[p]
        resp == Unwrap(hs.resp)
    IN
    /\ hs.pc = "responded"
    /\ handshake' = [handshake EXCEPT ![p] =
           [hs EXCEPT !.pc = "done",
                      !.initiator = IF ~resp.compatible
                                    THEN IncompatibleVersion(resp.info.api_version)
                                    ELSE NodeConnection]]
    /\ UNCHANGED <<now, node_holds, server_hdl, server_info, connected_servers, identify_data,
                   public_keys, identities, key_to_endpoint, notifications, tasks, fanouts,
                   notify_calls, ret, prev_data, submitted, closed, stream>>

(***************************************************************************)
(* The mock stream (mock/stream.rs).                                       *)
(***************************************************************************)
Bytes == 1..NumBytes
Chunks == UNION {[1..n -> Bytes] : n \in 0..MaxChunk}

\* MockWrite::poll_write: wait for a free slot of the channel (poll_reserve is
\* Pending while it is full), send a copy of buf as one item, empty or not,
\* and report all of it written.  After poll_shutdown: BrokenPipe.
poll_write(chunk) ==
    /\ Ready
    /\ IF stream.send = "Shutdown"
       THEN /\ ret' = [kind |-> "poll_write", result |-> "BrokenPipe", n |-> 0]
            /\ UNCHANGED stream
       ELSE /\ Len(stream.recv) < stream.cap
            /\ Len(stream.written) < MaxWrites
            /\ stream' = [stream EXCEPT !.recv = Append(@, chunk),
                                        !.written = Append(@, chunk)]
            /\ ret' = [kind |-> "poll_write", result |-> "Ok", n |-> Len(chunk)]
    /\ UNCHANGED <<now, node_holds, server_hdl, server_info, handshake, connected_servers,
                   identify_data, public_keys, identities, key_to_endpoint, notifications,
                   tasks, fanouts, notify_calls, prev_data, submitted, closed>>

\* MockWrite::poll_shutdown: the writer becomes Shutdown, which drops its
\* sender and closes the channel; a second shutdown is an error.
poll_shutdown ==
    /\ Ready
    /\ ret' = [kind |-> "poll_shutdown", n |-> 0,
               result |-> IF stream.send = "Shutdown" THEN "BrokenPipe" ELSE "Ok"]
    /\ stream' = [stream EXCEPT !.send = "Shutdown"]
    /\ UNCHANGED <<now, node_holds, server_hdl, server_info, handshake, connected_servers,
                   identify_data, public_keys, identities, key_to_endpoint, notifications,
                   tasks, fanouts, notify_calls, prev_data, submitted, closed>>

\* MockRead::to_read.
to_read(r) == Len(r.buf) - r.pos

\* Lines 85-92: with nothing left of the last chunk, take the next one off the
\* channel.
Refill(r) ==
    IF to_read(r) = 0
    THEN [r EXCEPT !.buf = @ \o Head(r.recv), !.recv = Tail(@)]
    ELSE r

\* Variant: the slice is taken from the start of buf.
Take_FromStart(r, remaining) ==
    LET amt == Min(to_read(r), remaining)
        pos == r.pos + amt
    IN  [bytes |-> SubSeq(r.buf, 1, amt),
         r |-> IF Len(r.buf) - pos = 0
               THEN [r EXCEPT !.pos = 0, !.buf = <<>>]
               ELSE [r EXCEPT !.pos = pos]]

\* Lines 94-103: hand out what fits of buf[pos..], advance pos, and reset
\* buf once it is used up.
Take(r, remaining) ==
    LET amt == Min(to_read(r), remaining)
        pos == r.pos + amt
    IN  [bytes |-> SubSeq(r.buf, r.pos + 1, r.pos + amt),
         r |-> IF Len(r.buf) - pos = 0
               THEN [r EXCEPT !.pos = 0, !.buf = <<>>]
               ELSE [r EXCEPT !.pos = pos]]

\* MockRead::poll_read into a ReadBuf with `remaining` bytes of room.  With
\* nothing buffered and an empty channel it is Pending while the writer lives
\* and BrokenPipe after the writer shut down.  A read_to_end is a loop of
\* these that ends at the first one that delivers no byte.
poll_read(remaining) ==
    /\ Ready
    /\ IF to_read(stream) = 0 /\ stream.recv = <<>>
       THEN /\ stream.send = "Shutdown"
            /\ ret' = [kind |-> "poll_read", result |-> "BrokenPipe", n |-> 0]
            /\ UNCHANGED stream
       ELSE LET took == Take(Refill(stream), remaining)
                n == Len(took.bytes)
            IN  /\ stream' = [took.r EXCEPT
                                !.got = @ \o took.bytes,
                                !.reads = @ + 1,
                                !.result = IF @ = None /\ n = 0 THEN Some(stream.got) ELSE @]
                /\ ret' = [kind |-> "poll_read", result |-> "Ok", n |-> n]
    /\ UNCHANGED <<now, node_holds, server_hdl, server_info, handshake, connected_servers,
                   identify_data, public_keys, identities, key_to_endpoint, notifications,
                   tasks, fanouts, notify_calls, prev_data, submitted, closed>>

(***************************************************************************)
(* Cancellation: the future of a handler dropped at one of its awaits.     *)
(***************************************************************************)
\* The handler stops where it is suspended: what it has written stays, its
\* guards and its Arc<ServerHandle> are released, no response is produced.  A
\* fan-out already spawned is detached and runs on.
Cancel(t) ==
    /\ Ready
    /\ tasks[t] # Idle
    /\ tasks' = [tasks EXCEPT ![t] = Idle]
    /\ ret' = NoRet
    /\ UNCHANGED <<now, node_holds, server_hdl, server_info, handshake, connected_servers,
                   identify_data, public_keys, identities, key_to_endpoint, notifications,
                   fanouts, notify_calls, prev_data, submitted, closed, stream>>

(***************************************************************************)
(* Disconnect: the connection of endpoint e closes and its owner drops the *)
(* InboundHdl it served requests with.                                     *)
(***************************************************************************)
\* An InboundHdl is an Arc (line 104): dropping one releases one strong
\* reference and nothing more.  Neither ServerHandle nor InboundEndpoint
\* implements Drop, and nothing removes from key_to_endpoint, which holds
\* clones of the handle (lines 70, 423-426): the endpoint, its identities and
\* its registry entries stay as they are.  The handlers borrow the handle, so
\* none of e is in flight.
Disconnect(e) ==
    /\ Ready
    /\ e \notin closed
    /\ \A t \in Slots : tasks[t] # Idle => tasks[t].ep # e
    /\ closed' = closed \cup {e}
    /\ ret' = NoRet
    /\ UNCHANGED <<now, node_holds, server_hdl, server_info, handshake, connected_servers,
                   identify_data, public_keys, identities, key_to_endpoint, notifications,
                   tasks, fanouts, notify_calls, prev_data, submitted, stream>>

(***************************************************************************)
(* The environment: the clock and the node's shutdown.                     *)
(***************************************************************************)
Tick(later) ==
    /\ Ready
    /\ later > now
    /\ now' = later
    /\ ret' = NoRet
    /\ UNCHANGED <<node_holds, server_hdl, server_info, handshake, connected_servers,
                   identify_data, public_keys, identities, key_to_endpoint, notifications,
                   tasks, fanouts, notify_calls, prev_data, submitted, closed, stream>>

\* The node drops its Arc<ServerHandle>.
DropServer ==
    /\ Ready
    /\ node_holds
    /\ node_holds' = FALSE
    /\ ret' = NoRet
    /\ UNCHANGED <<now, server_hdl, server_info, handshake, connected_servers, identify_data,
                   public_keys, identities, key_to_endpoint, notifications, tasks, fanouts,
                   notify_calls, prev_data, submitted, closed, stream>>

(***************************************************************************)
(* The requests a peer may send.                                           *)
(***************************************************************************)
\* A payload that differs from challenge c in one field.
Altered(c) ==
    {[c EXCEPT !.salt = 0], [c EXCEPT !.start_time = @ + 1], [c EXCEPT !.expire_time = @ + 1]}

\* Challenges a peer of endpoint e may sign: the stored one, the one it
\* replaced, those of the other endpoints, and near misses of the stored one.
Payloads(e) ==
    identify_data[e] \cup prev_data[e]
        \cup UNION {identify_data[o] : o \in Endpoints}
        \cup (IF identify_data[e] = None
              THEN {IdentifyData(1, now, now + EXPIRE_MS)}
              ELSE Altered(Unwrap(identify_data[e])))

HonestTriads(e, env) ==
    {gen_signed(sk, format, p, "IDENTIFY") :
        sk \in env.sks[e], format \in env.formats, p \in Payloads(e)}

\* The payload the dishonest triads are built around.
Target(e) ==
    IF identify_data[e] = None THEN IdentifyData(1, now, now + EXPIRE_MS)
    ELSE Unwrap(identify_data[e])

ForgedTriads(e, env) ==
    LET bytes == Serialize("Cbor", "IDENTIFY", Some(Target(e))) IN
    UNION {
        { \* a signature that is no signature
          KeyTriad(derive_public(sk), JunkSignature, SignedData("Cbor", bytes)),
          \* signed over the JSON bytes, sent with the CBOR bytes
          KeyTriad(derive_public(sk),
                   sign(sk, Serialize("Json", "IDENTIFY", Some(Target(e)))),
                   SignedData("Cbor", bytes)),
          \* a msgType that names no variant, correctly signed
          gen_signed(sk, "Cbor", Target(e), "OTHER"),
          \* bytes that decode to nothing, correctly signed
          KeyTriad(derive_public(sk), sign(sk, JunkBytes), SignedData("Cbor", JunkBytes)),
          \* bytes that decode to nothing, not signed
          KeyTriad(derive_public(sk), JunkSignature, SignedData("Json", JunkBytes)),
          \* CBOR bytes sent as JSON, correctly signed
          KeyTriad(derive_public(sk), sign(sk, bytes), SignedData("Json", bytes)) }
        \cup
        { \* signed by another key
          KeyTriad(derive_public(sk), sign(other, bytes), SignedData("Cbor", bytes)) :
            other \in PrivateKeys \ {sk} }
        \cup
        { \* a signature that is no signature, over any challenge
          KeyTriad(derive_public(sk), JunkSignature,
                   SignedData("Cbor", Serialize("Cbor", "IDENTIFY", Some(p)))) :
            p \in Payloads(e) }
        : sk \in env.sks[e] }

Triads(e, env) ==
    HonestTriads(e, env) \cup (IF e \in env.forgers THEN ForgedTriads(e, env) ELSE {})

KeysOf(env) == {derive_public(sk) : sk \in UNION {env.sks[e] : e \in env.eps}}
KeyLists(env) == UNION {[1..n -> KeysOf(env)] : n \in 0..env.keys_req}

(***************************************************************************)
(* The next-state relation.  Requests are drawn from `env`: the endpoints  *)
(* that receive requests, the key pairs and encodings their peers use, the *)
(* salts the RNG returns and the readings of the clock; at most `limit`    *)
(* handlers are in flight.                                                 *)
(***************************************************************************)
Requests(limit, env) ==
    \/ \E t \in FreeSlot(limit), e \in env.eps : \E salt \in env.salts[e] :
            PreIdentifyCall(t, e, salt)
    \/ \E t \in FreeSlot(limit), e \in env.eps : \E triad \in Triads(e, env) :
            IdentifyCall(t, e, triad)
    \/ \E t \in FreeSlot(limit), e \in env.eps, keys \in KeyLists(env) :
            \E notify \in {FALSE} \cup {e \in env.subscribers} :
                KeysExistsCall(t, e, keys, notify)
    \/ \E t \in FreeSlot(limit), e \in env.eps, from \in KeysOf(env), to \in KeysOf(env) :
            CommunicateCall(t, e, from, to)

Progress ==
    \/ \E t \in Slots : PreIdentifyStore(t)
    \/ \E t \in Slots : IdentifyRegister(t)
    \/ \E t \in Slots : IdentifyInsert(t)
    \/ \E t \in Slots : IdentifyPush(t)
    \/ \E t \in Slots : KeysExistsGet(t)
    \/ \E t \in Slots : KeysExistsIdentities(t)
    \/ \E t \in Slots : KeysExistsNotify(t)
    \/ \E t \in Slots : CommunicateContains(t)
    \/ \E t \in Slots : CommunicateGet(t)
    \/ \E t \in Slots, ok \in BOOLEAN : CommunicateOpened(t, ok)
    \/ \E f \in fanouts : FanoutRemove(f)
    \/ \E f \in fanouts : \E s \in Endpoints, ok \in BOOLEAN : FanoutNotify(f, s, ok)

Clock(env) == \E later \in env.times : Tick(later)

\* What a step handed out is taken by its receiver before the next step.
Respond ==
    /\ ret # NoRet
    /\ ret' = NoRet
    /\ UNCHANGED <<now, node_holds, server_hdl, server_info, handshake, connected_servers,
                   identify_data, public_keys, identities, key_to_endpoint, notifications,
                   tasks, fanouts, notify_calls, prev_data, submitted, closed, stream>>

\* One endpoint and one key pair, with every encoding and clock reading.
EnvProtocol ==
    [eps |-> {1}, sks |-> [e \in Endpoints |-> {1}], formats |-> Formats,
     salts |-> [e \in Endpoints |-> Salts], times |-> Times,
     keys_req |-> MaxKeysReq, subscribers |-> {1}, forgers |-> {1}]

\* Every endpoint, with one encoding, at one clock reading; the peer of
\* endpoint e owns the key pairs 1..e.
EnvRegistry ==
    [eps |-> Endpoints, sks |-> [e \in Endpoints |-> {sk \in PrivateKeys : sk <= e}],
     formats |-> {"Cbor"}, salts |-> [e \in Endpoints |-> {e}], times |-> {0},
     keys_req |-> MaxKeysReq, subscribers |-> {1}, forgers |-> {2}]

\* Requests are served one at a time (each handler returns before the next is
\* called); the spawned fan-out still runs on its own.
NextSeq ==
    \/ Requests(1, EnvRegistry)
    \/ Progress
    \/ Respond
SpecSeq == Init /\ [][NextSeq]_vars

NextProtocol ==
    \/ Requests(1, EnvProtocol)
    \/ Progress
    \/ Clock(EnvProtocol)
    \/ DropServer
    \/ Respond
SpecProtocol == Init /\ [][NextProtocol]_vars

\* The values of req.max.
Maxes == {None} \cup {Some(m) : m \in 0..MaxList}

\* What the node does with its ServerHandle, and the requests that read it.
NodeRequests(limit, env) ==
    \/ \E t \in FreeSlot(limit), h \in Endpoints : ConnectServerCall(t, h)
    \/ \E t \in FreeSlot(limit), e \in env.eps, max \in Maxes :
            ListConnectedServersCall(t, e, max)

NodeProgress ==
    \/ \E t \in Slots : ConnectServerWrite(t)
    \/ \E t \in Slots : \E order \in Orders(connected_servers) :
            ListConnectedServersRead(t, order)

\* Endpoints of either kind (InboundEndpoint::client, InboundEndpoint::server),
\* their remote ends servers or not.
InitNode ==
    \E kinds \in [Endpoints -> {"None", "Weak"}], infos \in [Endpoints -> BOOLEAN] :
        InitWith(kinds, infos)

\* Every endpoint, the peers all owning key pair 1, endpoint 1 also forging.
EnvNode ==
    [eps |-> Endpoints, sks |-> [e \in Endpoints |-> {1}], formats |-> {"Cbor"},
     salts |-> [e \in Endpoints |-> {1}], times |-> {0},
     keys_req |-> 1, subscribers |-> {1}, forgers |-> {1}]

\* The node with its connected servers, requests served one at a time.
NextNode ==
    \/ Requests(1, EnvNode)
    \/ NodeRequests(1, EnvNode)
    \/ Progress
    \/ NodeProgress
    \/ DropServer
    \/ Respond
SpecNode == InitNode /\ [][NextNode]_vars

\* Remote nodes connecting to this node, each advertising some apiVersion.
NextHandshake ==
    \/ \E p \in Peers, api_version \in Versions : Connect(p, api_version)
    \/ \E p \in Peers : Accept(p)
    \/ \E p \in Peers : Reject(p)
    \/ \E p \in Peers : DropResponder(p)
    \/ \E p \in Peers : ConnectResp(p)
SpecHandshake == Init /\ [][NextHandshake]_vars

\* One endpoint whose peer owns every key pair and answers one challenge.
EnvOrder ==
    [eps |-> {1}, sks |-> [e \in Endpoints |-> PrivateKeys], formats |-> {"Cbor"},
     salts |-> [e \in Endpoints |-> Salts], times |-> {0},
     keys_req |-> 1, subscribers |-> {}, forgers |-> {}]

\* The PreIdentify and Identify requests of one connection, handled
\* concurrently.
NextOrder ==
    \/ \E t \in FreeSlot(MaxTasks), e \in EnvOrder.eps : \E salt \in EnvOrder.salts[e] :
            PreIdentifyCall(t, e, salt)
    \/ \E t \in FreeSlot(MaxTasks), e \in EnvOrder.eps : \E triad \in Triads(e, EnvOrder) :
            IdentifyCall(t, e, triad)
    \/ \E t \in Slots : PreIdentifyStore(t)
    \/ \E t \in Slots : IdentifyRegister(t)
    \/ \E t \in Slots : IdentifyInsert(t)
    \/ \E t \in Slots : IdentifyPush(t)
    \/ \E f \in fanouts : FanoutRemove(f)
    \/ Respond
SpecOrder == Init /\ [][NextOrder]_vars

\* The node connecting servers while its endpoints list them, concurrently.
NextServers ==
    \/ NodeRequests(MaxTasks, EnvNode)
    \/ NodeProgress
    \/ DropServer
    \/ Respond
SpecServers == InitNode /\ [][NextServers]_vars

\* Every endpoint a subscriber, the peers all owning key pair 1.
EnvNotify ==
    [eps |-> Endpoints, sks |-> [e \in Endpoints |-> {1}], formats |-> {"Cbor"},
     salts |-> [e \in Endpoints |-> {1}], times |-> {0},
     keys_req |-> 1, subscribers |-> Endpoints, forgers |-> {}]

\* Several subscribers of one key, requests served one at a time.
NextNotify ==
    \/ Requests(1, EnvNotify)
    \/ Progress
    \/ Respond
SpecNotify == Init /\ [][NextNotify]_vars

\* Requests served one at a time, any of them dropped before it returns.
NextCancel ==
    \/ Requests(1, EnvNotify)
    \/ Progress
    \/ \E t \in Slots : Cancel(t)
    \/ Respond
SpecCancel == Init /\ [][NextCancel]_vars

\* The requests of env that the endpoints still connected receive.
Open(env) == [env EXCEPT !.eps = @ \ closed]

\* Requests served one at a time, connections closing in between.
NextClose ==
    \/ Requests(1, Open(EnvNotify))
    \/ Progress
    \/ \E e \in Endpoints : Disconnect(e)
    \/ Respond
SpecClose == Init /\ [][NextClose]_vars

\* A writer and a reader at the two ends of one stream_pair.
NextStream ==
    \/ \E chunk \in Chunks : poll_write(chunk)
    \/ poll_shutdown
    \/ \E remaining \in 1..MaxRead : poll_read(remaining)
    \/ Respond
SpecStream == Init /\ [][NextStream]_vars

\* One endpoint whose peer owns every key pair, any salt, the clock running.
EnvChallenge ==
    [eps |-> {1}, sks |-> [e \in Endpoints |-> PrivateKeys], formats |-> {"Cbor"},
     salts |-> [e \in Endpoints |-> Salts], times |-> Times,
     keys_req |-> 1, subscribers |-> {}, forgers |-> {}]

\* PreIdentify and Identify requests served one at a time while the clock advances.
NextChallenge ==
    \/ \E t \in FreeSlot(1), e \in EnvChallenge.eps : \E salt \in EnvChallenge.salts[e] :
            PreIdentifyCall(t, e, salt)
    \/ \E t \in FreeSlot(1), e \in EnvChallenge.eps : \E triad \in Triads(e, EnvChallenge) :
            IdentifyCall(t, e, triad)
    \/ \E t \in Slots : PreIdentifyStore(t)
    \/ \E t \in Slots : IdentifyRegister(t)
    \/ \E t \in Slots : IdentifyInsert(t)
    \/ \E t \in Slots : IdentifyPush(t)
    \/ \E f \in fanouts : FanoutRemove(f)
    \/ Clock(EnvChallenge)
    \/ Respond
SpecChallenge == Init /\ [][NextChallenge]_vars

\* Every endpoint a server endpoint, the remote end of endpoint 1 a server.
InitLive == InitWith([e \in Endpoints |-> "Weak"], [e \in Endpoints |-> e = 1])

\* Endpoint 1 identifies; every endpoint looks keys up, opens streams and
\* lists servers; the peers own key pair 1.
EnvLive ==
    [eps |-> Endpoints, sks |-> [e \in Endpoints |-> {1}], formats |-> {"Cbor"},
     salts |-> [e \in Endpoints |-> {1}], times |-> {0},
     keys_req |-> 1, subscribers |-> {1}, forgers |-> {}]

\* The six operations, run concurrently.
NextLive ==
    \/ \E t \in FreeSlot(MaxTasks) : \E salt \in EnvLive.salts[1] : PreIdentifyCall(t, 1, salt)
    \/ \E t \in FreeSlot(MaxTasks) : \E triad \in Triads(1, EnvLive) : IdentifyCall(t, 1, triad)
    \/ \E t \in FreeSlot(MaxTasks), e \in EnvLive.eps, keys \in KeyLists(EnvLive) :
            \E notify \in {FALSE} \cup {e \in EnvLive.subscribers} :
                KeysExistsCall(t, e, keys, notify)
    \/ \E t \in FreeSlot(MaxTasks), e \in EnvLive.eps :
            \E from \in KeysOf(EnvLive), to \in KeysOf(EnvLive) : CommunicateCall(t, e, from, to)
    \/ \E t \in FreeSlot(MaxTasks), h \in Endpoints : ConnectServerCall(t, h)
    \/ \E t \in FreeSlot(MaxTasks), e \in EnvLive.eps : ListConnectedServersCall(t, e, None)
    \/ Progress
    \/ NodeProgress
    \/ Respond

\* The next step of the handler in slot t, whatever it is.
HandlerStep(t) ==
    \/ PreIdentifyStore(t)
    \/ IdentifyRegister(t)
    \/ IdentifyInsert(t)
    \/ IdentifyPush(t)
    \/ KeysExistsGet(t)
    \/ KeysExistsIdentities(t)
    \/ KeysExistsNotify(t)
    \/ CommunicateContains(t)
    \/ CommunicateGet(t)
    \/ \E ok \in BOOLEAN : CommunicateOpened(t, ok)
    \/ ConnectServerWrite(t)
    \/ \E order \in Orders(connected_servers) : ListConnectedServersRead(t, order)

\* The executor polls every handler that can go on, a lock that is released
\* again and again is handed to each of its waiters, and open_stream returns.
Scheduling ==
    /\ WF_vars(Respond)
    /\ \A t \in Slots : SF_vars(HandlerStep(t))
SpecLive == InitLive /\ [][NextLive]_vars /\ Scheduling

\* Every endpoint, the peers all owning key pair 1.
EnvRace ==
    [eps |-> Endpoints, sks |-> [e \in Endpoints |-> {1}], formats |-> {"Cbor"},
     salts |-> [e \in Endpoints |-> {1}], times |-> {0},
     keys_req |-> 1, subscribers |-> {1}, forgers |-> {}]

\* Handlers run concurrently, as the executor runs them.
Next ==
    \/ Requests(MaxTasks, EnvRace)
    \/ Progress
    \/ DropServer
    \/ Respond
Spec == Init /\ [][Next]_vars


(***************************************************************************)
(* Properties.  A response is read off `ret` in the state its step leaves. *)
(***************************************************************************)
Decodes(triad) == to_signable(triad.signed) # None
Payload(triad) == Unwrap(to_signable(triad.signed)).obj
Verifies(triad) == valid(triad.public_key, triad.signed, triad.signature)
\* The bytes are a Signable serialized in the encoding the triad declares.
WellFormed(triad) ==
    triad.signed.bytes.enc = triad.signed.format /\ triad.signed.bytes.obj # None

\* An Identify that returned, and what its triad was.
Identified == ret.kind = "Identify"
Honest == Decodes(ret.triad) /\ Verifies(ret.triad) /\ Payload(ret.triad) \in ret.seen
InTime == ret.now_read <= Payload(ret.triad).expire_time

\* The parts of the state Identify writes.
Registry == <<identities, public_keys, key_to_endpoint, submitted>>

\* C1: an Identify whose triad verifies, decodes to the stored challenge and
\* is in time returns Ok when the key was not registered before; a later
\* KeysExists for that key returns exactly one triad, the one submitted,
\* its signed payload the bytes received.
C1_IdentifyThenKeysExists ==
    /\ (Identified /\ Honest /\ InTime /\ node_holds) =>
            /\ ret.result \in {"Ok", "AlreadyIdentified"}
            /\ ret.fresh => ret.result = "Ok"
            /\ ret.result = "Ok" =>
                    submitted[ret.ep][ret.triad.public_key] = ret.triad
    /\ (/\ ret.kind = "KeysExists" /\ ret.result = "Ok" /\ Len(ret.keys) = 1
        /\ Has(key_to_endpoint, ret.keys[1])
        /\ Has(submitted[key_to_endpoint[ret.keys[1]]], ret.keys[1])) =>
            ret.triads = <<submitted[key_to_endpoint[ret.keys[1]]][ret.keys[1]]>>

\* A KeysExists hands back a triad that was submitted as JSON.
C1_Witness ==
    /\ ret.kind = "KeysExists" /\ ret.result = "Ok" /\ Len(ret.triads) = 1
    /\ ret.triads[1].signed.format = "Json"
    /\ ret.triads[1] = submitted[ret.ep][ret.keys[1]]

\* C2 as stated: with a challenge stored, a triad whose signature does not
\* verify, or whose msgType is not IDENTIFY, is answered SignatureInvalid.
C2_AsStated ==
    (/\ Identified /\ ret.seen # None
     /\ \/ ~Verifies(ret.triad)
        \/ WellFormed(ret.triad) /\ ret.triad.signed.bytes.msgType # "IDENTIFY") =>
        ret.result = "SignatureInvalid"

C2_Rejected ==
    /\ (Identified /\ ret.seen # None /\ ~Decodes(ret.triad)) => ret.result = "ConvertErr"
    /\ (Identified /\ ret.seen # None /\ Decodes(ret.triad) /\ ~Verifies(ret.triad)) =>
            ret.result = "SignatureInvalid"
    /\ (/\ ret.kind = "KeysExists" /\ ret.result = "Ok"
        /\ \A i \in 1..Len(ret.keys) : ~Has(key_to_endpoint, ret.keys[i])) =>
            ret.triads = <<>>

C2_Untouched ==
    (ret'.kind = "Identify" /\ ret'.result \in {"SignatureInvalid", "ConvertErr"}) =>
        UNCHANGED <<Registry, notifications, identify_data, fanouts>>

\* C2: with a challenge stored, a triad whose payload decodes to an IDENTIFY
\* signable and whose signature does not verify is answered SignatureInvalid;
\* a payload that does not decode (a msgType other than IDENTIFY included) is
\* answered ConvertErr; either way the call changes nothing, and KeysExists
\* for keys that are not registered returns no triad.
C2_SignatureInvalid == []C2_Rejected /\ [][C2_Untouched]_vars

\* A junk signature over a well-formed payload was refused, nothing identified.
C2_Witness ==
    /\ Identified /\ ret.result = "SignatureInvalid"
    /\ ret.triad.signature = JunkSignature /\ Decodes(ret.triad)
    /\ identities[ret.ep] = EmptyMap /\ key_to_endpoint = EmptyMap

C3_Deadline ==
    (Identified /\ Honest) =>
        /\ ret.result = "Expired" <=> ~InTime
        /\ (InTime /\ node_holds) =>
                /\ ret.result \in {"Ok", "AlreadyIdentified"}
                /\ ret.fresh => ret.result = "Ok"

C3_ExpiredUntouched ==
    (ret'.kind = "Identify" /\ ret'.result = "Expired") =>
        UNCHANGED <<Registry, notifications, identify_data, fanouts>>

\* C3: an Identify whose triad verifies and decodes to the stored challenge
\* is answered Expired exactly when the clock it read is past expire_time; at
\* expire_time itself and before, it succeeds (Ok when the key was not
\* registered before).  An Expired call leaves identities, public_keys and the
\* registry as they were.
C3_Expiry == []C3_Deadline /\ [][C3_ExpiredUntouched]_vars

\* An Identify succeeded with the clock exactly at expire_time.
C3_Witness ==
    /\ Identified /\ Honest /\ ret.result = "Ok"
    /\ ret.now_read = Payload(ret.triad).expire_time

\* C4: an Identify on an endpoint with no challenge stored is answered
\* IdentifyDataInvalid whatever the triad; with a challenge stored, a triad
\* that decodes and verifies but whose payload is not that challenge (another
\* salt, start_time or expire_time, or the challenge of another endpoint) is
\* answered IdentifyDataInvalid.
C4_ChallengeMismatch ==
    /\ (Identified /\ ret.seen = None) => ret.result = "IdentifyDataInvalid"
    /\ (/\ Identified /\ Decodes(ret.triad) /\ Verifies(ret.triad)
        /\ Payload(ret.triad) \notin ret.seen) =>
            ret.result = "IdentifyDataInvalid"

\* A verifying triad over the challenge another endpoint holds was refused by
\* an endpoint that holds a challenge of its own.
C4_Witness ==
    /\ Identified /\ Decodes(ret.triad) /\ Verifies(ret.triad)
    /\ ret.seen # None /\ Payload(ret.triad) \notin ret.seen
    /\ \E o \in Endpoints \ {ret.ep} : Payload(ret.triad) \in identify_data[o]
    /\ ret.result = "IdentifyDataInvalid"

\* The latest PreIdentify of the endpoint replaced a different challenge.
Replaced(e) == prev_data[e] # None /\ prev_data[e] # identify_data[e]

\* C5: a PreIdentify leaves the challenge it returns as the one stored; once
\* it has replaced a different challenge, a verifying triad over the replaced
\* one is answered IdentifyDataInvalid and one over the stored one, in time,
\* succeeds.
C5_LatestChallengeOnly ==
    /\ ret.kind = "PreIdentify" => identify_data[ret.ep] = Some(ret.identify_data)
    /\ (/\ Identified /\ Decodes(ret.triad) /\ Verifies(ret.triad)
        /\ Replaced(ret.ep)) =>
            /\ Payload(ret.triad) \in prev_data[ret.ep] =>
                    ret.result = "IdentifyDataInvalid"
            /\ (Payload(ret.triad) \in identify_data[ret.ep] /\ InTime /\ node_holds) =>
                    /\ ret.result \in {"Ok", "AlreadyIdentified"}
                    /\ ret.fresh => ret.result = "Ok"

\* After two PreIdentify, a verifying triad over the first challenge was refused.
C5_Witness ==
    /\ Identified /\ Decodes(ret.triad) /\ Verifies(ret.triad)
    /\ Replaced(ret.ep) /\ Payload(ret.triad) \in prev_data[ret.ep]
    /\ ret.result = "IdentifyDataInvalid"

\* How often key k occurs in the sequence.
Occurrences(seq, k) == Cardinality({i \in 1..Len(seq) : seq[i] = k})

C6_Duplicate ==
    /\ (Identified /\ Honest /\ InTime /\ node_holds /\ ret.held) =>
            ret.result = "AlreadyIdentified"
    /\ (Identified /\ ret.result = "AlreadyIdentified") =>
            /\ ret.held
            /\ identities[ret.ep][ret.triad.public_key] =
                    CachedTriad(submitted[ret.ep][ret.triad.public_key])
            /\ Occurrences(public_keys[ret.ep], ret.triad.public_key) = 1

C6_DuplicateUntouched ==
    (ret'.kind = "Identify" /\ ret'.result = "AlreadyIdentified") =>
        UNCHANGED <<identities, public_keys, submitted>>

\* C6: a valid Identify for a key the endpoint already holds in identities is
\* answered AlreadyIdentified; the triad stored for the key is still the one
\* first submitted, and the key is in public_keys once.
C6_AlreadyIdentified == []C6_Duplicate /\ [][C6_DuplicateUntouched]_vars

\* A second valid triad for the key, not the one stored, was turned down.
C6_Witness ==
    /\ Identified /\ Honest /\ ret.result = "AlreadyIdentified"
    /\ ret.triad # submitted[ret.ep][ret.triad.public_key]

\* C7 as stated: once an endpoint has successfully identified a key,
\* key_to_endpoint maps the key to that endpoint (the last writer).
C7_LastWriterWins ==
    (Identified /\ ret.result = "Ok") =>
        key_to_endpoint[ret.triad.public_key] = ret.ep

\* Whether a notification of endpoint s for key k is outstanding: s is
\* subscribed, or a fan-out has taken the subscription and not yet called s.
Outstanding(s, k) ==
    \/ Has(notifications, k) /\ s \in notifications[k]
    \/ \E f \in fanouts : f.key = k /\ f.pc = "notify" /\ s \in f.endpoints

C8_AtMostOnce ==
    /\ \A s \in Endpoints, k \in PublicKeys :
            notify_calls[s][k] + (IF Outstanding(s, k) THEN 1 ELSE 0) <= 1
    /\ (/\ ret.kind = "KeysExists" /\ ret.result = "Ok" /\ ret.notify) =>
            \A i \in 1..Len(ret.keys) :
                \/ Has(key_to_endpoint, ret.keys[i])
                \/ ret.ep \in notifications[ret.keys[i]]
    /\ ret.kind = "notify_connected" =>
            /\ ret.triad = submitted[ret.by][ret.triad.public_key]
            /\ notify_calls[ret.conn][ret.triad.public_key] = 1
    /\ (/\ ret.kind = "KeysExists" /\ ret.result = "Ok" /\ Len(ret.keys) = 1
        /\ notify_calls[ret.ep][ret.keys[1]] = 1) =>
            ret.triads = <<submitted[key_to_endpoint[ret.keys[1]]][ret.keys[1]]>>

C8_NotLost ==
    \A s \in Endpoints, k \in PublicKeys :
        Outstanding(s, k) =>
            \/ Outstanding(s, k)'
            \/ /\ notify_calls'[s][k] = notify_calls[s][k] + 1
               /\ ret'.kind = "notify_connected" /\ ret'.conn = s

\* C8: a KeysExists with notify set subscribes the endpoint to every key of
\* the request that is not registered; the subscriptions of a key are a set,
\* so subscribing again adds nothing.  An
\* outstanding notification ends in one notify_connected call on the
\* subscriber's connection, carrying the triad the identifying endpoint
\* submitted, and no connection is called twice for a key; after it, a
\* KeysExists for the key returns the key's triad.
C8_NotifiedOnce == []C8_AtMostOnce /\ [][C8_NotLost]_vars

\* Endpoint A, subscribed, is called with the triad endpoint B identified with.
C8_Witness ==
    /\ ret.kind = "notify_connected" /\ ret.conn # ret.by
    /\ ret.triad = submitted[ret.by][ret.triad.public_key]
    /\ notify_calls[ret.conn][ret.triad.public_key] = 1

\* C9: a Communicate on an endpoint whose identities lacks `from` is answered
\* InvalidPublicKey and makes no open_stream call; every open_stream call in
\* flight was made for a key its initiator holds.
C9_NoImpersonation ==
    /\ (ret.kind = "Communicate" /\ ~Has(identities[ret.ep], ret.from)) =>
            ret.result = "InvalidPublicKey" /\ ret.opened = None
    /\ \A t \in Slots :
            (tasks[t].kind = "Communicate" /\ tasks[t].pc = "open_stream") =>
                Has(identities[tasks[t].ep], tasks[t].from)

\* Refused although another endpoint identified as `from` and `to` is registered.
C9_Witness ==
    /\ ret.kind = "Communicate" /\ ret.result = "InvalidPublicKey"
    /\ Has(key_to_endpoint, ret.from) /\ key_to_endpoint[ret.from] # ret.ep
    /\ Has(key_to_endpoint, ret.to)

\* C10: a Communicate from an endpoint that holds `from` is answered
\* CannotFindKey, with no open_stream call, when `to` is not in key_to_endpoint;
\* otherwise it made one open_stream(from) call, on the connection of the
\* endpoint key_to_endpoint maps `to` to, and answers with that call's result.
C10_Communicate ==
    /\ (ret.kind = "Communicate" /\ Has(identities[ret.ep], ret.from)) =>
            IF Has(key_to_endpoint, ret.to)
            THEN /\ ret.opened # None
                 /\ Unwrap(ret.opened).conn = key_to_endpoint[ret.to]
                 /\ Unwrap(ret.opened).key = ret.from
                 /\ ret.result = IF Unwrap(ret.opened).ok THEN "Stream" ELSE "StreamOpenErr"
            ELSE ret.result = "CannotFindKey" /\ ret.opened = None
    /\ \A t \in Slots :
            (tasks[t].kind = "Communicate" /\ tasks[t].pc = "open_stream") =>
                tasks[t].to_hdl = key_to_endpoint[tasks[t].to]

\* A stream was opened on the connection of another endpoint than the initiator.
C10_Witness ==
    /\ ret.kind = "Communicate" /\ ret.result = "Stream"
    /\ Unwrap(ret.opened).conn # ret.ep
    /\ Unwrap(ret.opened).conn = key_to_endpoint[ret.to]

\* Key k has a registry owner that holds it in its identities.
Present(k) == Has(key_to_endpoint, k) /\ Has(identities[key_to_endpoint[k]], k)

\* The triads, as submitted, of the keys of the request that are present, in
\* the order of the request.
PresentTriads(keys) ==
    LET found == SelectSeq(keys, Present)
    IN [i \in 1..Len(found) |-> submitted[key_to_endpoint[found[i]]][found[i]]]

Subscribed(old, new, k, e) ==
    /\ DOMAIN new = DOMAIN old \cup {k}
    /\ new[k] = (IF Has(old, k) THEN old[k] ELSE {}) \cup {e}
    /\ \A j \in DOMAIN old \ {k} : new[j] = old[j]

\* Every step of a KeysExists handler leaves key_to_endpoint and identities
\* alone, and changes notifications only by subscribing its endpoint to the
\* key it is at, a key that is absent, when the request asked for it.
C12_HandlerSteps ==
    /\ ret'.kind = "KeysExists" => UNCHANGED <<key_to_endpoint, identities>>
    /\ \A t \in Slots :
            (/\ tasks'[t] # tasks[t]
             /\ tasks[t].kind = "KeysExists" \/ tasks'[t].kind = "KeysExists") =>
                /\ UNCHANGED <<key_to_endpoint, identities>>
                /\ notifications' # notifications =>
                        /\ tasks[t].kind = "KeysExists" /\ tasks[t].notify
                        /\ ~Present(tasks[t].keys[tasks[t].idx])
                        /\ Subscribed(notifications, notifications',
                                      tasks[t].keys[tasks[t].idx], tasks[t].ep)

\* A KeysExists with notify set has, when it returns, its endpoint subscribed
\* to every requested key that is absent.
C12_AbsentSubscribed ==
    (ret.kind = "KeysExists" /\ ret.result = "Ok" /\ ret.notify) =>
        \A i \in 1..Len(ret.keys) :
            ~Present(ret.keys[i]) =>
                Has(notifications, ret.keys[i]) /\ ret.ep \in notifications[ret.keys[i]]

\* C12: with requests served one at a time, KeysExists with notify set adds
\* the calling endpoint to notifications[k], creating the set if needed, for
\* each requested key k that is absent and for no key that is present;
\* without notify it leaves notifications unchanged; it never changes
\* key_to_endpoint or the identities of any endpoint.
C12_SubscribesAbsentOnly == []C12_AbsentSubscribed /\ [][C12_HandlerSteps]_vars

\* Of two keys asked for with notify, the present one got no subscription and
\* the absent one got the caller's.
C12_Witness ==
    /\ ret.kind = "KeysExists" /\ ret.result = "Ok" /\ ret.notify
    /\ Len(ret.keys) = 2 /\ Present(ret.keys[1]) /\ ~Present(ret.keys[2])
    /\ ~Has(notifications, ret.keys[1])
    /\ ret.ep \in notifications[ret.keys[2]]

\* C13: a ListConnectedServers that succeeds returns the first min(max, n)
\* entries of the iteration over the n connected servers when max is given
\* (never more than max, none for max = 0), and all n when max is None.
C13_UpToMax ==
    (ret.kind = "ListConnectedServers" /\ ret.result = "Ok") =>
        ret.servers = IF ret.max = None THEN ret.order
                      ELSE SubSeq(ret.order, 1, Min(Unwrap(ret.max), Len(ret.order)))


\* The step that completes a connect_server.
ConnectServerReturns == ret = NoRet /\ ret'.kind = "connect_server"

C14_Outcome ==
    ConnectServerReturns =>
        LET e == ret'.hdl IN
        IF ~server_info[e] \/ e \in connected_servers
        THEN /\ ret'.result = "Err"
             /\ ret'.returned = Some(e)
             /\ connected_servers' = connected_servers
        ELSE /\ ret'.result = "Ok"
             /\ connected_servers' = connected_servers \cup {e}

\* C14: connect_server(e) returns Err(e) and leaves connected_servers as it
\* was when e has no server_info or a handle with e's id is already there;
\* otherwise it returns Ok and connected_servers grows by exactly e.  Nothing
\* else changes connected_servers.
C14_ConnectServer ==
    [][/\ C14_Outcome
       /\ (connected_servers' # connected_servers => ConnectServerReturns)]_vars

\* A second connect_server of a connected handle has been refused.
C14_Witness ==
    /\ ret.kind = "connect_server"
    /\ ret.result = "Err"
    /\ ret.hdl \in connected_servers

\* The requests that need the server handle.
ServerScoped == {"KeysExists", "Communicate", "ListConnectedServers"}

\* No handler of a server-scoped request runs on a client endpoint.
C15_NoHandler ==
    \A t \in Slots :
        (tasks[t] # Idle /\ tasks[t].kind \in ServerScoped) => server_hdl[tasks[t].ep] # "None"

\* A server-scoped request on a client endpoint is answered NotServer by a
\* step that changes nothing else.
C15_Refused ==
    (ret = NoRet /\ ret' # NoRet /\ ret'.kind \in ServerScoped
                 /\ server_hdl[ret'.ep] = "None") =>
        /\ ret'.result = "NotServer"
        /\ UNCHANGED <<now, node_holds, server_hdl, server_info, handshake, connected_servers,
                       identify_data, public_keys, identities, key_to_endpoint, notifications,
                       tasks, fanouts, notify_calls, prev_data, submitted, closed, stream>>

\* C15: on a client endpoint (one without a server handle) KeysExists,
\* Communicate and ListConnectedServers fail with NotServer before anything
\* else, whatever the request holds, and change no state: no subscription is
\* recorded and no stream is opened.
C15_NotServer == []C15_NoHandler /\ [][C15_Refused]_vars

\* A client endpoint asked to be notified of an absent key and was refused,
\* the node's server handle being alive.
C15_Witness ==
    /\ ret.kind = "KeysExists"
    /\ ret.result = "NotServer"
    /\ ret.notify
    /\ ret.keys # <<>>
    /\ ServerAlive
    /\ \A i \in 1..Len(ret.keys) : ~Present(ret.keys[i])

\* C16: once the ServerHandle is dropped, every Identify, KeysExists,
\* Communicate and ListConnectedServers that begins on a server-scoped endpoint
\* fails with ServerHdlDropped whatever the request holds, and changes no state.
C16_DroppedFirst ==
    [][(/\ ~ServerAlive
        /\ \A t \in Slots : tasks[t] = Idle
        /\ ret = NoRet /\ ret' # NoRet
        /\ ret'.kind \in {"Identify"} \cup ServerScoped
        /\ server_hdl[ret'.ep] = "Weak") =>
            /\ ret'.result = "ServerHdlDropped"
            /\ UNCHANGED <<now, node_holds, server_hdl, server_info, handshake,
                           connected_servers, identify_data, public_keys, identities,
                           key_to_endpoint, notifications, tasks, fanouts, notify_calls,
                           prev_data, submitted, closed, stream>>]_vars

\* The acceptor has dealt with the peer's NodeInfo.
Accepted(p) == handshake[p].pc \in {"responder", "responded", "done"}

\* C17: an acceptor that receives NODE_INFO with apiVersion > CURRENT_VERSION
\* rejects with IncompatibleVersion(that version) and neither side produces a
\* NodeConnection; an apiVersion equal to or lower than CURRENT_VERSION is
\* accepted and both sides produce their NodeConnection.
C17_VersionHandshake ==
    \A p \in Peers :
        Accepted(p) =>
            LET hs == handshake[p] IN
            IF hs.info.api_version > CURRENT_VERSION
            THEN /\ hs.acceptor = IncompatibleVersion(hs.info.api_version)
                 /\ hs.initiator # NodeConnection
            ELSE /\ hs.acceptor = NodeConnection
                 /\ hs.pc = "done" => hs.initiator = NodeConnection

\* One peer was turned away and told so, another was accepted.
C17_Witness ==
    \E p, q \in Peers :
        /\ handshake[p].pc = "done"
        /\ handshake[p].initiator = IncompatibleVersion(CURRENT_VERSION)
        /\ handshake[p].info.api_version > CURRENT_VERSION
        /\ handshake[q].pc = "done"
        /\ handshake[q].initiator = NodeConnection

\* Nothing is in flight: every handler has returned and every fan-out is over.
Quiescent == (\A t \in Slots : tasks[t] = Idle) /\ fanouts = {} /\ ret = NoRet

\* C18: however a KeysExists(notify = true) for K by endpoint A interleaves
\* with an Identify of K by endpoint B, no execution ends with K registered and
\* identified by B while A still sits, never notified, in notifications[K].
C18_NoOrphan ==
    \A k \in PublicKeys :
        (Quiescent /\ Present(k) /\ Has(notifications, k)) =>
            notifications[k] \subseteq {key_to_endpoint[k]}

\* A step of the KeysExists handler in slot t, at a key whose subscription
\* set a fan-out had extracted before the request began: the handler does
\* not subscribe, and leaves the key with the key's triad appended.
C19_HandlerStep(t) ==
    LET tk == tasks[t]
        k == tk.keys[tk.idx]
        moved == tasks'[t] = Idle \/ tasks'[t].idx # tk.idx
        triads == IF tasks'[t] = Idle THEN ret'.triads ELSE tasks'[t].triads
    IN
    (tk.kind = "KeysExists" /\ tk.notify /\ tasks'[t] # tk /\ k \in tk.extracted) =>
        /\ notifications' = notifications
        /\ moved => /\ Len(triads) = Len(tk.triads) + 1
                    /\ triads[Len(triads)].public_key = k

\* C19: once the fan-out for an identified key K has removed notifications[K],
\* every KeysExists(notify = true) for K that begins afterwards finds the owner
\* in key_to_endpoint holding K, returns K's triad and does not add itself to
\* notifications[K].
C19_NoLateSubscription == [][\A t \in Slots : C19_HandlerStep(t)]_vars

Proving(o, k) ==
    \/ Has(identities[o], k)
    \/ \E t \in Slots : /\ tasks[t].kind = "Identify" /\ tasks[t].pc = "identities"
                        /\ tasks[t].ep = o /\ tasks[t].triad.public_key = k

C21_RegisteredHeld ==
    \A k \in DOMAIN key_to_endpoint : Has(identities[key_to_endpoint[k]], k)

\* The elements of a sequence.
Range(seq) == {seq[i] : i \in 1..Len(seq)}

\* Endpoint e has an Identify between its identities insert and its push.
Pushing(e) ==
    \E t \in Slots : tasks[t].kind = "Identify" /\ tasks[t].pc = "public_keys" /\ tasks[t].ep = e

C22_DuplicateFree ==
    \A e \in Endpoints : Cardinality(Range(public_keys[e])) = Len(public_keys[e])

C22_SameKeys ==
    \A e \in Endpoints : ~Pushing(e) => Range(public_keys[e]) = DOMAIN identities[e]

\* A push puts the key at the place it took in identities.
C22_InsertionOrder ==
    \A t \in Slots :
        LET tk == tasks[t] IN
        (tk.kind = "Identify" /\ tk.pc = "public_keys" /\ tasks'[t] = Idle) =>
            /\ public_keys'[tk.ep] = Append(public_keys[tk.ep], tk.triad.public_key)
            /\ Len(public_keys'[tk.ep]) = tk.rank

\* C22: for every endpoint, public_keys contains no duplicate, lists the keys
\* in the order in which they were inserted into identities, and its set of
\* elements equals the key set of identities, after any sequence and
\* interleaving of PreIdentify and Identify calls.
C22_PublicKeys ==
    /\ [](C22_DuplicateFree /\ C22_SameKeys)
    /\ [][C22_InsertionOrder]_vars

\* What every entry of identities is: the key, a signature that verifies
\* over the bytes kept, which are the bytes received and decode to the view
\* kept with them, an IDENTIFY message.
C23_Entries ==
    \A e \in Endpoints : \A k \in DOMAIN identities[e] :
        LET triad == identities[e][k] IN
        /\ triad.public_key = k
        /\ valid(k, triad.signed.value, triad.signature)
        /\ triad.signed.value = submitted[e][k].signed
        /\ triad.signature = submitted[e][k].signature
        /\ to_signable(triad.signed.value) = Some(triad.signed.signable)
        /\ triad.signed.signable.msg_type = "IDENTIFY"

\* An entry is stored with the payload equal to the endpoint's challenge, and
\* is never altered; the challenge slot is written by PreIdentify alone.
C23_Stored ==
    \A e \in Endpoints :
        /\ \A k \in DOMAIN identities'[e] :
              IF Has(identities[e], k)
              THEN identities'[e][k] = identities[e][k]
              ELSE identify_data[e] = Some(identities'[e][k].signed.signable.obj)
        /\ identify_data'[e] # identify_data[e] =>
              /\ ret'.kind = "PreIdentify" /\ ret'.ep = e
              /\ identify_data'[e] = Some(ret'.identify_data)

\* C23: for every endpoint E and every entry (k, triad) of E.identities,
\* triad.public_key = k, the stored signature verifies under k over the hash
\* of the stored wire bytes exactly as received, the decoded msg_type is
\* IDENTIFY, and the decoded payload equals a challenge that PreIdentify
\* issued to E.
C23_ProvenEntries == []C23_Entries /\ [][C23_Stored]_vars

\* An entry received in another encoding than CBOR, its challenge replaced since.
C23_Witness ==
    \E e \in Endpoints : \E k \in DOMAIN identities[e] :
        /\ identities[e][k].signed.value.format # "Cbor"
        /\ identify_data[e] # Some(identities[e][k].signed.signable.obj)

\* Every connected server has server_info, and no ListConnectedServers has
\* met an entry without one.
C24_ServersOnly ==
    /\ \A h \in connected_servers : server_info[h]
    /\ ret.kind = "ListConnectedServers" => ret.result # "Panic"

\* A connect_server succeeds only for a handle whose id is not connected yet,
\* and no connected server is ever dropped: one success per id.
C24_OncePerId ==
    /\ connected_servers \subseteq connected_servers'
    /\ (ret = NoRet /\ ret'.kind = "connect_server" /\ ret'.result = "Ok") =>
          /\ ret'.hdl \notin connected_servers
          /\ connected_servers' = connected_servers \cup {ret'.hdl}

\* C24: after any sequence of concurrent connect_server calls,
\* connected_servers contains only endpoints whose server_info is present and
\* at most one endpoint per id; so ListConnectedServers never meets an entry
\* without a domain.
C24_ConnectedServers == []C24_ServersOnly /\ [][C24_OncePerId]_vars

\* A ListConnectedServers went over a connected server while a connect_server
\* of a connected handle waited for the write lock.
C24_Witness ==
    /\ ret.kind = "ListConnectedServers" /\ ret.result = "Ok" /\ ret.order # <<>>
    /\ \E t \in Slots : tasks[t].kind = "connect_server" /\ tasks[t].hdl \in connected_servers

\* C25: Identify applies its checks in the order: stored challenge present,
\* payload decodes, msg_type and signature valid, payload equals the stored
\* challenge, not expired; the first check that fails determines the error.
\* So a badly signed triad yields SignatureInvalid whatever its payload, and a
\* well signed triad over a stale challenge yields IdentifyDataInvalid even
\* when that challenge has expired.
C25_FirstFailingCheck ==
    Identified =>
        IF ret.seen = None THEN ret.result = "IdentifyDataInvalid"
        ELSE IF ~Decodes(ret.triad) THEN ret.result = "ConvertErr"
        ELSE IF ~Verifies(ret.triad) THEN ret.result = "SignatureInvalid"
        ELSE IF Payload(ret.triad) \notin ret.seen THEN ret.result = "IdentifyDataInvalid"
        ELSE IF ret.now_read > Payload(ret.triad).expire_time THEN ret.result = "Expired"
        ELSE ret.result \in {"Ok", "AlreadyIdentified", "ServerHdlDropped"}

\* A well signed triad over the challenge the last PreIdentify replaced,
\* sent after that challenge expired, was refused as IdentifyDataInvalid.
C25_Witness ==
    /\ Identified /\ ret.result = "IdentifyDataInvalid"
    /\ Decodes(ret.triad) /\ Verifies(ret.triad)
    /\ Payload(ret.triad) \in prev_data[ret.ep]
    /\ ret.seen # None
    /\ ret.now_read > Payload(ret.triad).expire_time

\* A notify_connected call, failed or not, touches no handler, and the
\* fan-out goes on with the subscribers it has not called yet.
C26_Delivery ==
    (ret = NoRet /\ ret'.kind = "notify_connected") =>
        /\ tasks' = tasks
        /\ \E f \in fanouts :
              /\ f.key = ret'.triad.public_key /\ ret'.conn \in f.endpoints
              /\ \A s \in f.endpoints \ {ret'.conn} :
                    \E g \in fanouts' : g.key = f.key /\ g.pc = "notify" /\ s \in g.endpoints

\* An Identify that has stored its triad returns Ok, whatever its fan-out does.
C26_Caller ==
    \A t \in Slots :
        (tasks[t].kind = "Identify" /\ tasks[t].pc = "public_keys") =>
            \/ tasks'[t] = tasks[t]
            \/ tasks'[t] = Idle /\ ret'.kind = "Identify" /\ ret'.result = "Ok"

\* C26: notification delivery never affects the identifying caller or the
\* other subscribers: Identify returns success whether or not
\* notify_connected fails, and a notify_connected that fails for one
\* subscriber of K does not keep the fan-out from the remaining subscribers.
C26_BestEffort == [][C26_Delivery /\ C26_Caller]_vars

\* A notify_connected failed while the identifying call had not returned yet
\* and another subscriber was still to be called.
C26_Witness ==
    /\ ret.kind = "notify_connected" /\ ~ret.ok
    /\ \E f \in fanouts : f.key = ret.triad.public_key /\ f.pc = "notify" /\ f.endpoints # {}
    /\ \E t \in Slots : /\ tasks[t].kind = "Identify" /\ tasks[t].pc = "public_keys"
                        /\ tasks[t].triad.public_key = ret.triad.public_key

\* C27: dropping a handler at any of its suspension points leaves the
\* registry and the endpoints consistent: once nothing is in flight, every key
\* in key_to_endpoint is in its owner's identities, and every key in an
\* endpoint's identities is in its public_keys.
C27_CancelSafe ==
    Quiescent =>
        /\ \A k \in DOMAIN key_to_endpoint : Has(identities[key_to_endpoint[k]], k)
        /\ \A e \in Endpoints : DOMAIN identities[e] \subseteq Range(public_keys[e])

\* C28: once the connection of an endpoint has closed, the keys it identified
\* are no longer in key_to_endpoint (so that a later KeysExists finds none of
\* its triads).
C28_RemovedOnDisconnect ==
    \A k \in DOMAIN key_to_endpoint : key_to_endpoint[k] \notin closed

\* The bytes of a sequence of chunks, in order.
RECURSIVE Concat(_)
Concat(chunks) == IF chunks = <<>> THEN <<>> ELSE Head(chunks) \o Concat(Tail(chunks))

\* The chunks written before the first empty one.
RECURSIVE BeforeEmpty(_)
BeforeEmpty(chunks) ==
    IF chunks = <<>> \/ Head(chunks) = <<>>
    THEN <<>>
    ELSE <<Head(chunks)>> \o BeforeEmpty(Tail(chunks))

\* What the reader has not been handed yet: the rest of the chunk in buf, then
\* the chunks in the channel.
Undelivered ==
    SubSeq(stream.buf, stream.pos + 1, Len(stream.buf)) \o Concat(stream.recv)

\* The bytes handed to the reader, followed by those still on their way, are
\* the bytes written, in write order.
C29_InOrder == stream.got \o Undelivered = Concat(stream.written)

\* A read_to_end on the fresh stream returns the bytes written before the
\* first empty write.
C29_ReadToEnd ==
    stream.result # None => Unwrap(stream.result) = Concat(BeforeEmpty(stream.written))

\* A poll_read delivers no byte exactly when the chunk it takes off the
\* channel is an empty write.
C29_EmptyIsEof ==
    (ret = NoRet /\ ret'.kind = "poll_read" /\ ret'.result = "Ok") =>
        (ret'.n = 0 <=> (to_read(stream) = 0 /\ Head(stream.recv) = <<>>))

\* C29: the reader of a mock stream_pair gets the bytes written, in write
\* order, none lost and none twice, whatever room its read buffers have; an
\* empty write reaches it as a read of zero bytes, at which a read_to_end
\* returns the writes before it.
C29_MockStream == [](C29_InOrder /\ C29_ReadToEnd) /\ [][C29_EmptyIsEof]_vars

\* One chunk, then an empty write: the read_to_end took several reads for the
\* chunk, its buffers being shorter, and ended at the zero-byte read.
C29_Witness ==
    /\ ret.kind = "poll_read" /\ ret.result = "Ok" /\ ret.n = 0
    /\ Len(stream.written) = 2
    /\ stream.written[2] = <<>>
    /\ stream.result = Some(stream.written[1])
    /\ stream.reads >= 3

\* An Identify answered with an error has not inserted into key_to_endpoint.
C30_NoWrite == (Identified /\ ret.result # "Ok") => ~ret.fresh

\* The step at which an Identify returns an error changes nothing and spawns
\* no fan-out.
C30_ErrorStep ==
    (ret'.kind = "Identify" /\ ret'.result # "Ok") =>
        UNCHANGED <<key_to_endpoint, notifications, identities, public_keys, identify_data,
                    fanouts, notify_calls>>

\* C30: an Identify that returns an error has written nothing: key_to_endpoint,
\* notifications, the endpoint's identities, public_keys and identify_data are
\* as it found them, and no notify_connected call comes of it.
C30_ErrorsLeaveNoTrace == []C30_NoWrite /\ [][C30_ErrorStep]_vars

\* A valid, timely triad over the stored challenge, for a key the endpoint
\* does not hold yet, is accepted, whatever was identified against that
\* challenge before.
C31_StillHonoured ==
    (Identified /\ Honest /\ InTime /\ ~ret.held) => ret.result = "Ok"

\* identify_data changes at a PreIdentify only.
C31_KeptByIdentify ==
    identify_data' # identify_data => ret'.kind = "PreIdentify"

\* C31: a successful Identify leaves identify_data as it is: the challenge
\* stays honourable for further keys of the endpoint until a PreIdentify
\* replaces it or it expires.
C31_ChallengeReusable == []C31_StillHonoured /\ [][C31_KeptByIdentify]_vars

\* A second key was identified against the challenge the first one used, and
\* the challenge is still stored.
C31_Witness ==
    /\ Identified /\ ret.result = "Ok"
    /\ Len(public_keys[ret.ep]) = 2
    /\ \A k \in DOMAIN submitted[ret.ep] :
            Some(Payload(submitted[ret.ep][k])) = identify_data[ret.ep]
    /\ Cardinality(DOMAIN submitted[ret.ep]) = 2

\* Of the Identifys of one endpoint for one key at most one has returned Ok
\* (each Ok comes with one push onto public_keys); one answered
\* AlreadyIdentified lost to another whose triad is stored and whose key is
\* pushed, or about to be; a valid, timely triad gets one of the two answers.
C32_Outcome ==
    /\ \A e \in Endpoints, k \in PublicKeys : Occurrences(public_keys[e], k) <= 1
    /\ (Identified /\ ret.result = "AlreadyIdentified") =>
            /\ Has(identities[ret.ep], ret.triad.public_key)
            /\ \/ Occurrences(public_keys[ret.ep], ret.triad.public_key) = 1
               \/ \E t \in Slots : /\ tasks[t].kind = "Identify"
                                   /\ tasks[t].pc = "public_keys"
                                   /\ tasks[t].ep = ret.ep
                                   /\ tasks[t].triad.public_key = ret.triad.public_key
    /\ (Identified /\ Honest /\ InTime /\ node_holds) =>
            ret.result \in {"Ok", "AlreadyIdentified"}
    /\ Quiescent =>
            \A e \in Endpoints : \A k \in DOMAIN identities[e] :
                Occurrences(public_keys[e], k) = 1

\* A fan-out is spawned in the step that first stores a triad for its key,
\* and a stored triad is never replaced or removed: one fan-out per endpoint
\* and key.
C32_SpawnedOnce ==
    /\ \A f \in fanouts' \ fanouts :
            ~Has(identities[f.by], f.key) /\ Has(identities'[f.by], f.key)
    /\ \A e \in Endpoints : \A k \in DOMAIN identities[e] :
            Has(identities'[e], k) /\ identities'[e][k] = identities[e][k]

\* C32: of two concurrent Identifys of one endpoint with valid triads for the
\* same key, one returns Ok and the other AlreadyIdentified; the key is in
\* public_keys once, identities holds one triad for it, and its fan-out was
\* spawned once.
C32_OneWinner == []C32_Outcome /\ [][C32_SpawnedOnce]_vars

\* The loser of such a race has returned, after the winner: the key was not
\* held when the loser was called.
C32_Witness ==
    /\ Identified /\ ret.result = "AlreadyIdentified" /\ ~ret.held
    /\ Honest /\ InTime
    /\ Occurrences(public_keys[ret.ep], ret.triad.public_key) = 1
    /\ tasks = [t \in Slots |-> Idle]

\* C33: a Communicate suspended in open_stream holds no lock on the
\* key_to_endpoint entry of `to`: a KeysExists or Communicate about to look
\* the key up, or an Identify about to register it, can take its step.
C33_EntryNotHeld ==
    \A t \in Slots :
        /\ (Ready /\ tasks[t].kind = "KeysExists" /\ tasks[t].pc = "key_to_endpoint") =>
                ENABLED KeysExistsGet(t)
        /\ (Ready /\ tasks[t].kind = "Communicate" /\ tasks[t].pc = "key_to_endpoint") =>
                ENABLED CommunicateGet(t)
        /\ (Ready /\ tasks[t].kind = "Identify" /\ tasks[t].pc = "key_to_endpoint") =>
                ENABLED IdentifyRegister(t)

\* C34: with the handlers scheduled fairly and open_stream returning, every
\* handler that was invoked returns: no handler waits for ever for
\* identify_data, public_keys, connected_servers or an entry of the maps.
C34_Returns == \A t \in Slots : (tasks[t] # Idle) ~> (tasks[t] = Idle)

\* An Identify that holds the read guard of identify_data waits for the
\* key_to_endpoint entry a Communicate holds while it is in open_stream.
C34_Witness ==
    \E t \in Slots :
        /\ tasks[t].kind = "Identify" /\ tasks[t].pc = "key_to_endpoint"
        /\ EntryLocked(tasks[t].triad.public_key)

====
